---- MODULE Spec2Model ----
(***************************************************************************)
(* Model of the transcoding orchestration engine of videoconverter:        *)
(*   - ConversionWorker        (src/src/ui/worker.py)  the batch scheduler, *)
(*     running in the GUI thread;                                          *)
(*   - FileConversionRunnable  (src/src/ui/worker.py)  one job, run in a    *)
(*     QThreadPool thread;                                                 *)
(*   - Converter.convert_single_file (src/src/core/converter.py) the job    *)
(*     supervisor that owns one encoder process.                           *)
(* Signals emitted by a job thread to the worker are queued connections:   *)
(* they are appended to the GUI thread's event queue (evq) and handled one *)
(* at a time by the GUI thread.                                            *)
(*   - ScanCache (src/src/utils/scan_cache.py) and ThumbnailCache          *)
(*     (src/src/utils/thumb_cache.py), the two identity caches, with the   *)
(*     cache file, its temporary files and the thumbnail files on disk.    *)
(***************************************************************************)
EXTENDS Integers, Sequences, FiniteSets, TLC

\* ---------------------------------------------------------------- bounds
NumJobs == 3
MaxConc == 2
MaxLines == 1
MaxLinesOne == 3
FairJobs == 2
NumThreads == 2
MaxOps == 2
MaxRestarts == 1
MaxHolds == 1
MaxOpsOther == 1

Jobs == 1..NumJobs

\* elapsed-time markers "time=HH:MM:SS" the encoder may print (h, m, s)
TimeMarks == { <<0, 0, 30>>, <<0, 1, 30>> }
\* durations (seconds) the probe may report; 0 also stands for a failed probe
Durations == { 0, 60 }

VARIABLES
  \* ---- ConversionWorker (GUI thread)
  max_concurrency,    \* self.max_concurrency
  total_count,        \* self.total_count = len(queue_items)
  delete_flag,        \* item['delete_flag'], the same check box for every item
  started,            \* start() has been called
  is_stopped,         \* ConversionWorker._is_stopped
  active_runnables,   \* self.active_runnables, sequence of jobs
  next_index,         \* self.next_index
  completed_count,    \* self.completed_count
  file_progress_map,  \* self.file_progress_map, job -> fraction <<num, den>>
  mainPc,             \* where the GUI thread is: idle, or inside stop()
                      \* (stop_loop, stop_wait)
  stopPos,            \* loop position of stop() in active_runnables
  evq,                \* queued signal deliveries to the worker's slots
  poolQueue,          \* QThreadPool run queue
  \* ---- FileConversionRunnable / Converter, per job
  pc,                 \* position of the job's thread
  r_is_stopped,       \* FileConversionRunnable._is_stopped
  stop_event,         \* Converter.stop_event
  proc,               \* encoder process: none, running, exited (its exit was
                      \* seen by poll()), terminated (terminate() was called
                      \* on it and it has not exited yet)
  returncode,         \* process.returncode
  duration,           \* probed duration
  linesRead,          \* job -> diagnostic lines its supervisor has read so far
  lineBudget,         \* how many diagnostic lines one encoder prints at most
  timeMarks,          \* the elapsed-time markers the encoders print
  probeDurations,     \* the durations the probe reports
  ret,                \* what convert_single_file returned
  outSeen,            \* the file at final_output_path when auto-delete ran
  srcSeen,            \* the file at input_path when auto-delete ran
  \* ---- observations (what the outside sees)
  popenCalls,         \* job -> number of encoder processes spawned for it
  trashCalls,         \* job -> number of successful send2trash(input_path)
  trashError,         \* job -> send2trash raised
  lastMark,           \* job -> seconds of the last elapsed-time marker read
  lastSent,           \* job -> fraction last given to signals.progress
  sentFinished,       \* job -> number of signals.finished.emit of its runnable
  file_started,       \* sequence of jobs, in order of file_started.emit
  file_finished,      \* job -> number of file_finished.emit
  progress_updated,   \* global progress of the last progress_updated.emit
  batch_finished,     \* number of batch_finished.emit
  stoppedLive,        \* job -> Converter.stop() was called on it before its
                      \* supervisor had returned
  \* ---- functions of converter.py and helpers.py called on their own,
  \* ---- and supervisors (convert_single_file) next to their output files
  callArgs,           \* the arguments of the call, or of each supervisor
  callPc,             \* idle, called, probed, returned; or the position of
                      \* each supervisor
  callResult,         \* what the call has computed so far; or the locals
                      \* of each supervisor
  existing,           \* the output paths that exist on disk
  \* ---- the identity caches (one cache file per behaviour)
  kind,               \* which cache: "scan" (ScanCache) or "thumb"
  cache,              \* instance -> self.cache, a map path -> entry
  initialized,        \* ThumbnailCache._instance._initialized
  lock,               \* thread that holds CACHE_LOCK, 0 when free
  cpc,                \* thread -> where it is in the method it executes
  opsLeft,            \* thread -> cache operations it may still start
  final,              \* content of the cache file self.filename
  readable,           \* the cache file can be opened for reading
  tmpf,               \* temp file name -> content of that temp file
  hnd,                \* thread -> file its write handle is open on
  snap,               \* thread -> the document json.dump is writing
  attempt,            \* thread -> rename attempts made by the current save
  tries,              \* thread -> read attempts made by the current load
  rdContent,          \* thread -> content of the file it has open for reading
  holders,            \* who has the cache file open: threads, 0 = another
                      \* process
  holdsLeft,          \* times another process may still open the cache file
  restartsLeft,       \* times the process may still end and start again
  thumbFiles,         \* paths whose thumbnail file exists on disk
  lookupRes,          \* the last lookup: its arguments and its result
  saveResult,         \* thread -> how its last save() ended
  loadRaised,         \* thread -> its constructor raised to the caller
  lastRemoval,        \* the last remove_entry / clear: what it found and did
  lastSaved,          \* the map of the last save() that returned, while
                      \* nothing else has touched the cache since
  loadedAfter,        \* instance -> lastSaved when its load opened the file
  loadSaw             \* instance -> what its load found (missing, unreadable,
                      \* corrupt, doc), "changed" once a caller changed the
                      \* map, "none" before

vars == << max_concurrency, total_count, delete_flag, lineBudget, timeMarks,
           probeDurations, started, is_stopped,
           active_runnables, next_index, completed_count, file_progress_map,
           mainPc, stopPos, evq, poolQueue, pc, r_is_stopped, stop_event,
           proc, returncode, duration, linesRead, ret, outSeen, srcSeen,
           trashCalls, popenCalls, trashError, lastMark, lastSent, sentFinished,
           file_started,
           file_finished, progress_updated, batch_finished, stoppedLive,
           callArgs, callPc, callResult, existing,
           kind, cache, initialized, lock, cpc, opsLeft, final, readable,
           tmpf, hnd, snap, attempt, tries, rdContent, holders, holdsLeft,
           restartsLeft, thumbFiles, lookupRes, saveResult, loadRaised,
           lastRemoval, lastSaved, loadedAfter, loadSaw >>

\* the caches and their files
cacheVars == << kind, cache, initialized, lock, cpc, opsLeft, final, readable,
                tmpf, hnd, snap, attempt, tries, rdContent, holders,
                holdsLeft, restartsLeft, thumbFiles, lookupRes, saveResult,
                loadRaised, lastRemoval, lastSaved, loadedAfter, loadSaw >>

\* calls considered on their own
callVars == << callArgs, callPc, callResult, existing >>

workerVars == << active_runnables, next_index, completed_count,
                 file_progress_map, file_started, file_finished,
                 progress_updated, batch_finished >>
jobVars == << r_is_stopped, stop_event, proc, returncode, duration, linesRead,
              lastMark, lastSent, ret, outSeen, srcSeen, trashCalls, popenCalls, trashError,
              sentFinished >>
\* what no step of the worker or of a job changes: the batch's settings,
\* and the caches, which the conversion engine does not use
configVars == << max_concurrency, total_count, delete_flag, lineBudget,
                timeMarks, probeDurations, cacheVars, callVars >>

\* ------------------------------------------------------------- helpers

\* fractions are exact rationals <<num, den>>, den > 0
FracLeq(f, g) == f[1] * g[2] <= g[1] * f[2]
Zero == <<0, 1>>
One == <<1, 1>>
NoFrac == <<0, 0>>

\* queue_items read one position too low: the item before next_index
queue_items_before(i) == IF i = 0 THEN 1 ELSE i

\* queue_items[i] for 0 <= i < total_count; a job is named by its position,
\* and paths are unique in the queue
queue_items(i) == i + 1

\* input_path of a job and the final_output_path computed for it:
\* get_output_path appends "_hevc.mp4" to the stem
InputPath(j) == << "in", j >>
FinalOutputPath(j) == << "in", j, "_hevc.mp4" >>

\* threads of the pool that are inside FileConversionRunnable.run
InRun(p) == p \notin {"new", "queued", "cleared", "returned"}
ActiveThreads == { j \in Jobs : InRun(pc[j]) }

\* ------------------------------------------------- the caches: data
\* threads of the process that use a cache, and the paths they cache
Threads == 1..NumThreads
Paths == 1..NumThreads

\* modification times, in hundredths of a second, and sizes of the files
Mtimes == { 0, 5, 10 }
StoredMtimes == { 0, 5 }
Sizes == { 500, 600 }
StoredSizes == { 500 }

\* 0.1 s, in hundredths of a second
MtimeTolerance == 10
\* max_retries of ThumbnailCache.save
max_retries == 3
\* range(3) of ScanCache.load
LoadTries == 3

\* self.cache[key]: {mtime, size, codec | thumb_path, timestamp}; the value
\* (codec, or thumbnail file) of path p is named p
NoEntry == [has |-> FALSE, mtime |-> 0, size |-> 0, value |-> 0]
Entry(mt, sz, v) == [has |-> TRUE, mtime |-> mt, size |-> sz, value |-> v]
EmptyMap == [p \in Paths |-> NoEntry]

\* json.dump(self.cache): the document holds one member per key of the map
Dump(m) == { << p, m[p] >> : p \in { q \in Paths : m[q].has } }
\* json.load of a well-formed document: the map of its members
Parse(doc) ==
  [p \in Paths |-> IF \E x \in doc : x[1] = p
                   THEN (CHOOSE x \in doc : x[1] = p)[2]
                   ELSE NoEntry]

\* a file: absent, or the first n of the 2 parts in which a document is
\* written, or bytes of different documents mixed
Absent == [st |-> "absent", doc |-> {}, n |-> 0]
EmptyFile == [st |-> "file", doc |-> {}, n |-> 0]
Garbled == [st |-> "garbled", doc |-> {}, n |-> 0]
Whole(doc) == [st |-> "file", doc |-> doc, n |-> 2]
\* json.load accepts the content
WellFormed(c) == c.st = "file" /\ c.n = 2
\* f.write of part k of document doc on a file whose content is c
WriteChunk(c, doc, k) ==
  IF c.st = "file" /\ c.n = k - 1 /\ (k = 1 \/ c.doc = doc)
  THEN [st |-> "file", doc |-> doc, n |-> k]
  ELSE Garbled

\* the instance a thread uses: ThumbnailCache is a singleton, ScanCache() is
\* constructed anew by each user
Inst(t) == IF kind = "thumb" THEN 1 ELSE t
\* one temporary file name for every writer
TempNameShared(t) == 0
\* temp_filename: f"{filename}.tmp" or f"{filename}.{uuid.uuid4()}.tmp"
TempName(t) == IF kind = "thumb" THEN 0 ELSE t
TempNames == 0..NumThreads

\* results of a lookup
Miss == [hit |-> FALSE, value |-> 0]
Hit(v) == [hit |-> TRUE, value |-> v]
NoSaved == [valid |-> FALSE, map |-> EmptyMap]
NoLookup ==
  [by |-> 0, path |-> 0, mtime |-> 0, size |-> 0, res |-> Miss,
   saw |-> "none", after |-> NoSaved]
NoSave == [st |-> "none", attempts |-> 0, stored |-> FALSE]
NoRemoval ==
  [op |-> "none", by |-> 0, path |-> 0, before |-> EmptyMap,
   filesBefore |-> {}, failed |-> {}, returned |-> FALSE,
   persisted |-> FALSE, reloaded |-> FALSE]

\* the caches are not used
CacheAtRest ==
  /\ kind = "scan"
  /\ cache = [t \in Threads |-> EmptyMap]
  /\ initialized = FALSE
  /\ lock = 0
  /\ cpc = [t \in Threads |-> "new"]
  /\ opsLeft = [t \in Threads |-> 0]
  /\ final = Absent
  /\ readable = TRUE
  /\ tmpf = [x \in TempNames |-> Absent]
  /\ hnd = [t \in Threads |-> "none"]
  /\ snap = [t \in Threads |-> {}]
  /\ attempt = [t \in Threads |-> 0]
  /\ tries = [t \in Threads |-> 0]
  /\ rdContent = [t \in Threads |-> Absent]
  /\ holders = {}
  /\ holdsLeft = 0
  /\ restartsLeft = 0
  /\ thumbFiles = {}
  /\ lookupRes = NoLookup
  /\ saveResult = [t \in Threads |-> NoSave]
  /\ loadRaised = [t \in Threads |-> FALSE]
  /\ lastRemoval = NoRemoval
  /\ lastSaved = NoSaved
  /\ loadedAfter = [t \in Threads |-> NoSaved]
  /\ loadSaw = [t \in Threads |-> "none"]

\* no function is called on its own
NoCall ==
  /\ callArgs = << >>
  /\ callPc = "idle"
  /\ callResult = << >>
  /\ existing = {}

\* ------------------------------------------------------------- Init
\* the conversion engine after ConversionWorker.__init__
EngineRest ==
  /\ started = FALSE
  /\ is_stopped = FALSE
  /\ active_runnables = << >>
  /\ next_index = 0
  /\ completed_count = 0
  /\ file_progress_map = [j \in Jobs |-> Zero]
  /\ mainPc = "idle"
  /\ stopPos = 0
  /\ evq = << >>
  /\ poolQueue = << >>
  /\ pc = [j \in Jobs |-> "new"]
  /\ r_is_stopped = [j \in Jobs |-> FALSE]
  /\ stop_event = [j \in Jobs |-> FALSE]
  /\ proc = [j \in Jobs |-> "none"]
  /\ returncode = [j \in Jobs |-> -1]
  /\ duration = [j \in Jobs |-> 0]
  /\ linesRead = [j \in Jobs |-> 0]
  /\ ret = [j \in Jobs |-> "none"]
  /\ outSeen = [j \in Jobs |-> "unchecked"]
  /\ srcSeen = [j \in Jobs |-> "unchecked"]
  /\ trashCalls = [j \in Jobs |-> 0]
  /\ popenCalls = [j \in Jobs |-> 0]
  /\ trashError = [j \in Jobs |-> FALSE]
  /\ lastMark = [j \in Jobs |-> -1]
  /\ lastSent = [j \in Jobs |-> NoFrac]
  /\ sentFinished = [j \in Jobs |-> 0]
  /\ file_started = << >>
  /\ file_finished = [j \in Jobs |-> 0]
  /\ progress_updated = NoFrac
  /\ batch_finished = 0
  /\ stoppedLive = [j \in Jobs |-> FALSE]

InitRest ==
  /\ delete_flag \in BOOLEAN
  /\ EngineRest
  /\ CacheAtRest
  /\ NoCall

\* a batch of up to NumJobs items; every encoder prints at most MaxLines
\* progress lines, "time=00:00:30", for a source of 60 seconds
Init ==
  /\ max_concurrency \in 1..MaxConc
  /\ total_count \in 0..NumJobs
  /\ lineBudget = MaxLines
  /\ timeMarks = { <<0, 0, 30>> }
  /\ probeDurations = { 60 }
  /\ InitRest

\* batches of at most FairJobs items, for the termination of the batch
InitFair ==
  /\ max_concurrency \in 1..MaxConc
  /\ total_count \in 0..FairJobs
  /\ lineBudget = MaxLines
  /\ timeMarks = { <<0, 0, 30>> }
  /\ probeDurations = { 60 }
  /\ InitRest

\* a batch of one item whose encoder prints up to MaxLinesOne progress lines
\* with any of the markers, for any of the durations
InitOne ==
  /\ max_concurrency \in 1..MaxConc
  /\ total_count = 1
  /\ lineBudget = MaxLinesOne
  /\ timeMarks = TimeMarks
  /\ probeDurations = Durations
  /\ InitRest

\* ------------------------------------------------- QThreadPool (Qt library)
\* QThreadPool.start(runnable): run it in a new thread unless that would
\* exceed maxThreadCount (= max_concurrency, worker.py:94); else queue it
PoolMaxThreadCount == max_concurrency

RECURSIVE PoolStartAll(_, _, _)
PoolStartAll(js, pcf, q) ==
  IF js = << >> THEN << pcf, q >>
  ELSE LET j == Head(js)
           busy == Cardinality({ k \in Jobs : InRun(pcf[k]) })
       IN IF busy < PoolMaxThreadCount
          THEN PoolStartAll(Tail(js), [pcf EXCEPT ![j] = "run"], q)
          ELSE PoolStartAll(Tail(js), [pcf EXCEPT ![j] = "queued"], Append(q, j))

\* ------------------------------------------------- ConversionWorker
\* sum(self.file_progress_map.values()): the map has one key per queue item
AddFrac(f, g) == << f[1] * g[2] + g[1] * f[2], f[2] * g[2] >>
RECURSIVE SumProgress(_, _)
SumProgress(m, n) ==
  IF n = 0 THEN Zero ELSE AddFrac(SumProgress(m, n - 1), m[n])

\* GlobalProgress dividing by the number of items launched so far
GlobalProgressOfLaunched(m) ==
  IF next_index > 0
  THEN LET t == SumProgress(m, total_count) IN << t[1], t[2] * next_index >>
  ELSE Zero

\* total_progress_sum / self.total_count if self.total_count > 0 else 0
GlobalProgress(m) ==
  IF total_count > 0
  THEN LET t == SumProgress(m, total_count) IN << t[1], t[2] * total_count >>
  ELSE Zero

\* ScheduleLoopCond with <= in place of <
ScheduleLoopCondOffByOne(nActive, idx) ==
  nActive <= max_concurrency /\ idx < total_count

\* loop condition of _schedule_next
ScheduleLoopCond(nActive, idx) ==
  nActive < max_concurrency /\ idx < total_count

\* ScheduleLoop with "if" in place of "while": at most one launch per call
ScheduleLoopOnce(act, idx, launched) ==
  IF ScheduleLoopCond(Len(act), idx)
  THEN << Append(act, queue_items(idx)), idx + 1, Append(launched, queue_items(idx)) >>
  ELSE << act, idx, launched >>

\* the while loop of _schedule_next: <<active_runnables, next_index, launched>>
RECURSIVE ScheduleLoop(_, _, _)
ScheduleLoop(act, idx, launched) ==
  IF ScheduleLoopCond(Len(act), idx)
  THEN ScheduleLoop(Append(act, queue_items(idx)), idx + 1,
                    Append(launched, queue_items(idx)))
  ELSE << act, idx, launched >>

\* BatchDone one job early
BatchDoneEarly(cc) == cc >= total_count - 1

\* condition under which _schedule_next emits batch_finished
BatchDone(cc) == cc = total_count

\* _schedule_next, called with the worker's current active list and
\* completed count; it is never entered when _is_stopped (callers checked)
schedule_next(act, cc) ==
  IF is_stopped
  THEN /\ active_runnables' = act
       /\ UNCHANGED << next_index, file_started, pc, poolQueue, batch_finished >>
  ELSE LET r == ScheduleLoop(act, next_index, << >>)
           ps == PoolStartAll(r[3], pc, poolQueue)
       IN /\ active_runnables' = r[1]
          /\ next_index' = r[2]
          /\ file_started' = file_started \o r[3]
          /\ pc' = ps[1]
          /\ poolQueue' = ps[2]
          /\ batch_finished' = IF BatchDone(cc) THEN batch_finished + 1
                               ELSE batch_finished

\* ConversionWorker.start
start ==
  /\ mainPc = "idle"
  /\ ~started
  /\ started' = TRUE
  /\ schedule_next(active_runnables, completed_count)
  /\ UNCHANGED << configVars, is_stopped, completed_count, file_progress_map,
                  mainPc, stopPos, evq, jobVars, file_finished,
                  progress_updated, stoppedLive >>

\* slots that lack the guard
SlotNeverIgnores == FALSE

\* guard of the two slots: events are ignored once the worker is stopped
SlotIgnores == is_stopped

\* ConversionWorker._on_item_progress, run by the GUI thread for the event at
\* the head of its queue
on_item_progress ==
  /\ mainPc = "idle"
  /\ evq # << >>
  /\ Head(evq).kind = "progress"
  /\ evq' = Tail(evq)
  /\ IF SlotIgnores
     THEN UNCHANGED << file_progress_map, progress_updated >>
     ELSE /\ file_progress_map' =
               [file_progress_map EXCEPT ![Head(evq).job] = Head(evq).frac]
          /\ progress_updated' = GlobalProgress(file_progress_map')
  /\ UNCHANGED << configVars, started, is_stopped, active_runnables,
                  next_index, completed_count, mainPc, stopPos, poolQueue,
                  pc, jobVars, file_started, file_finished, batch_finished,
                  stoppedLive >>

\* RemoveByPath that removes nothing
RemoveNothing(act, j) == act

\* the list comprehension that removes the finished runnable by path
RemoveByPath(act, j) == SelectSeq(act, LAMBDA r : r # j)

\* ConversionWorker._on_item_finished
on_item_finished ==
  /\ mainPc = "idle"
  /\ evq # << >>
  /\ Head(evq).kind = "finished"
  /\ evq' = Tail(evq)
  /\ IF SlotIgnores
     THEN UNCHANGED << workerVars, pc, poolQueue >>
     ELSE LET j == Head(evq).job
          IN /\ file_progress_map' = [file_progress_map EXCEPT ![j] = One]
             /\ file_finished' = [file_finished EXCEPT ![j] = @ + 1]
             /\ completed_count' = completed_count + 1
             /\ progress_updated' = GlobalProgress(file_progress_map')
             /\ schedule_next(RemoveByPath(active_runnables, j),
                              completed_count + 1)
  /\ UNCHANGED << configVars, started, is_stopped, mainPc, stopPos, jobVars,
                  stoppedLive >>

\* pool.clear(): runnables still queued in the pool never run
PoolClear(pcf) == [j \in Jobs |-> IF pcf[j] = "queued" THEN "cleared" ELSE pcf[j]]

\* the supervisor of job j has not returned yet
Live(j) == pc[j] \in {"queued", "run", "conv", "loop", "read"}

\* ConversionWorker.stop, up to the first statement of the first r.stop():
\* self._is_stopped = True; r._is_stopped = True.  With no active runnable
\* the loop is empty and pool.clear() follows at once.
stop ==
  /\ mainPc = "idle"
  /\ started
  /\ ~is_stopped
  /\ is_stopped' = TRUE
  /\ IF active_runnables = << >>
     THEN /\ poolQueue' = << >>
          /\ pc' = PoolClear(pc)
          /\ mainPc' = "stop_wait"
          /\ UNCHANGED << stopPos, r_is_stopped >>
     ELSE /\ r_is_stopped' = [r_is_stopped EXCEPT ![active_runnables[1]] = TRUE]
          /\ stopPos' = 1
          /\ mainPc' = "stop_loop"
          /\ UNCHANGED << poolQueue, pc >>
  /\ UNCHANGED << configVars, started, workerVars, evq, stop_event, proc,
                  returncode, duration, linesRead, lastMark, lastSent, ret, outSeen,
                  srcSeen, trashCalls, popenCalls, trashError, sentFinished, stoppedLive >>

\* the loop of stop(): second statement of r.stop() for the current runnable
\* (self.converter.stop(): stop_event = True), then the first statement of
\* the next r.stop(), or after the last one pool.clear()
stop_loop ==
  /\ mainPc = "stop_loop"
  /\ LET j == active_runnables[stopPos]
     IN /\ stop_event' = [stop_event EXCEPT ![j] = TRUE]
        /\ stoppedLive' = [stoppedLive EXCEPT ![j] = Live(j)]
  /\ IF stopPos < Len(active_runnables)
     THEN /\ r_is_stopped' = [r_is_stopped EXCEPT ![active_runnables[stopPos + 1]] = TRUE]
          /\ stopPos' = stopPos + 1
          /\ UNCHANGED << mainPc, poolQueue, pc >>
     ELSE /\ poolQueue' = << >>
          /\ pc' = PoolClear(pc)
          /\ mainPc' = "stop_wait"
          /\ UNCHANGED << stopPos, r_is_stopped >>
  /\ UNCHANGED << configVars, started, is_stopped, workerVars, evq, proc,
                  returncode, duration, linesRead, lastMark, lastSent, ret, outSeen,
                  srcSeen, trashCalls, popenCalls, trashError, sentFinished >>

\* pool.waitForDone() returns when no pool thread is running; stop() returns
stop_wait_done ==
  /\ mainPc = "stop_wait"
  /\ ActiveThreads = {}
  /\ mainPc' = "idle"
  /\ UNCHANGED << configVars, started, is_stopped, workerVars, stopPos, evq,
                  poolQueue, pc, jobVars, stoppedLive >>

\* what no step of a job thread changes
schedVars == << configVars, started, is_stopped, workerVars, mainPc, stopPos >>

\* ------------------------------------------------- FileConversionRunnable
ProgressEv(j, f) ==
  [kind |-> "progress", job |-> j, frac |-> f, success |-> FALSE, deleted |-> FALSE,
   msg |-> ""]
FinishedEv(j, ok, del) ==
  [kind |-> "finished", job |-> j, frac |-> Zero, success |-> ok, deleted |-> del,
   msg |-> ""]

\* the third argument of the finished signal: a message on failure, the
\* output path on success
WithMessage(ev, m) == [ev EXCEPT !.msg = m]

\* the message of run() for a job without options, were it the generic one
NoOptionsMessageGeneric == "Unknown Error"

\* the message of run() for a job whose options could not be determined
NoOptionsMessage == "Could not determine compression options."

\* error_msg or "Unknown Error": convert_single_file returns the error text
\* of the encoder, or None when it was cancelled
FailureMessage(r) == IF r = "error" THEN "error_msg" ELSE "Unknown Error"

\* run(), up to the call of convert_single_file: determine the options
\* (get_video_info and calculate_quality_options succeed, or yield nothing);
\* without options emit finished(False, "Could not determine ...", False) and
\* return; with options, "if self._is_stopped: return"
run_begin(j, ok) ==
  /\ pc[j] = "run"
  /\ IF ~ok
     THEN /\ evq' = Append(evq, WithMessage(FinishedEv(j, FALSE, FALSE),
                                            NoOptionsMessage))
          /\ sentFinished' = [sentFinished EXCEPT ![j] = @ + 1]
          /\ ret' = [ret EXCEPT ![j] = "no_options"]
          /\ pc' = [pc EXCEPT ![j] = "exit"]
     ELSE /\ pc' = [pc EXCEPT ![j] = IF r_is_stopped[j] THEN "exit" ELSE "conv"]
          /\ UNCHANGED << evq, sentFinished, ret >>
  /\ UNCHANGED << schedVars, poolQueue, r_is_stopped, stop_event, proc,
                  returncode, duration, linesRead, lastMark, lastSent, outSeen, srcSeen,
                  trashCalls, popenCalls, trashError, stoppedLive >>

\* the 'deleted' argument of the finished signal on success
DeletedField(j) == delete_flag

\* the finished signal run() emits for what convert_single_file returned
FinishedSignal(j, r) ==
  IF r = "success"
  THEN WithMessage(FinishedEv(j, TRUE, DeletedField(j)), "result_path")
  ELSE WithMessage(FinishedEv(j, FALSE, FALSE), FailureMessage(r))

\* run() without the check after the conversion
ReturnsSilentlyNever(j) == FALSE

\* "if self._is_stopped: return" after the conversion
ReturnsSilently(j) == r_is_stopped[j]

\* run(), after convert_single_file returned r: "if self._is_stopped: return",
\* else emit finished
run_end(j, r) ==
  /\ ret' = [ret EXCEPT ![j] = r]
  /\ IF ReturnsSilently(j)
     THEN UNCHANGED << evq, sentFinished >>
     ELSE /\ evq' = Append(evq, FinishedSignal(j, r))
          /\ sentFinished' = [sentFinished EXCEPT ![j] = @ + 1]
  /\ pc' = [pc EXCEPT ![j] = "exit"]

\* run() returns: its locals (the returned tuple) and what the supervisor
\* saw are gone; the pool thread takes the next queued runnable, if any
thread_exit(j) ==
  /\ pc[j] = "exit"
  /\ IF poolQueue # << >>
     THEN /\ pc' = [pc EXCEPT ![j] = "returned", ![Head(poolQueue)] = "run"]
          /\ poolQueue' = Tail(poolQueue)
     ELSE /\ pc' = [pc EXCEPT ![j] = "returned"]
          /\ UNCHANGED poolQueue
  /\ ret' = [ret EXCEPT ![j] = "none"]
  /\ returncode' = [returncode EXCEPT ![j] = -1]
  /\ proc' = [proc EXCEPT ![j] = IF @ = "terminated" THEN @ ELSE "none"]
  /\ outSeen' = [outSeen EXCEPT ![j] = "unchecked"]
  /\ srcSeen' = [srcSeen EXCEPT ![j] = "unchecked"]
  /\ trashError' = [trashError EXCEPT ![j] = FALSE]
  /\ stoppedLive' = [stoppedLive EXCEPT ![j] = FALSE]
  /\ UNCHANGED << schedVars, evq, r_is_stopped, stop_event, duration,
                  linesRead, lastMark, lastSent, trashCalls, popenCalls, sentFinished >>

\* ------------------------------------------------- Converter
\* seconds of a "time=HH:MM:SS" marker
CurrentSeconds(t) == t[1] * 3600 + t[2] * 60 + t[3]

\* Progress without the min(..., 1.0)
ProgressNoClamp(cur, dur) ==
  IF dur > 0 THEN << cur, dur >> ELSE Zero

\* progress = min(current_seconds / duration, 1.0) if duration > 0 else 0
Progress(cur, dur) ==
  IF dur > 0 THEN (IF cur < dur THEN << cur, dur >> ELSE One) ELSE Zero

\* convert_single_file, from its entry to the read loop: stop_event = False,
\* paths, probe (duration dur), command, Popen
convert_begin(j, dur) ==
  /\ pc[j] = "conv"
  /\ stop_event' = [stop_event EXCEPT ![j] = FALSE]
  /\ proc' = [proc EXCEPT ![j] = "running"]
  /\ popenCalls' = [popenCalls EXCEPT ![j] = @ + 1]
  /\ duration' = [duration EXCEPT ![j] = dur]
  /\ pc' = [pc EXCEPT ![j] = "loop"]
  /\ UNCHANGED << schedVars, evq, poolQueue, r_is_stopped, returncode,
                  linesRead, lastMark, lastSent, ret, outSeen, srcSeen, trashCalls,
                  trashError, sentFinished, stoppedLive >>

\* convert_single_file when Popen raises (encoder missing, bad arguments):
\* the except clause returns (False, str(e), None)
convert_launch_error(j) ==
  /\ pc[j] = "conv"
  /\ stop_event' = [stop_event EXCEPT ![j] = FALSE]
  /\ run_end(j, "error")
  /\ UNCHANGED << schedVars, poolQueue, r_is_stopped, proc, returncode,
                  duration, linesRead, lastMark, lastSent, outSeen, srcSeen, trashCalls, popenCalls,
                  trashError, stoppedLive >>

\* top of the read loop, "if self.stop_event": process.terminate() asks the
\* encoder to end and returns at once, without process.wait(); remove the
\* partial output if it exists (os.remove may fail), return
\* (False, None, None); otherwise go on to readline()
convert_loop_check(j, found) ==
  /\ pc[j] = "loop"
  /\ IF stop_event[j]
     THEN /\ found \in {"missing", "removed", "remove_failed"}
          /\ proc' = [proc EXCEPT ![j] = "terminated"]
          /\ outSeen' = [outSeen EXCEPT ![j] = found]
          /\ duration' = [duration EXCEPT ![j] = 0]
          /\ lastMark' = [lastMark EXCEPT ![j] = -1]
          /\ lastSent' = [lastSent EXCEPT ![j] = NoFrac]
          /\ linesRead' = [linesRead EXCEPT ![j] = 0]
          /\ run_end(j, "cancelled")
     ELSE /\ found = "unchecked"
          /\ pc' = [pc EXCEPT ![j] = "read"]
          /\ UNCHANGED << proc, outSeen, ret, duration, lastMark, lastSent, linesRead,
                          evq, sentFinished >>
  /\ UNCHANGED << schedVars, poolQueue, r_is_stopped, stop_event, returncode,
                  srcSeen, trashCalls, popenCalls, trashError, stoppedLive >>

\* readline() returns a line with an elapsed-time marker: compute the
\* fraction and call update_callback, which emits unless the runnable is stopped
convert_read_progress(j, t) ==
  /\ pc[j] = "read"
  /\ proc[j] = "running"
  /\ linesRead[j] < lineBudget
  /\ linesRead' = [linesRead EXCEPT ![j] = @ + 1]
  /\ lastMark' = [lastMark EXCEPT ![j] = CurrentSeconds(t)]
  /\ LET f == Progress(CurrentSeconds(t), duration[j])
     IN IF ~r_is_stopped[j]
        THEN /\ evq' = Append(evq, ProgressEv(j, f))
             /\ lastSent' = [lastSent EXCEPT ![j] = f]
        ELSE UNCHANGED << evq, lastSent >>
  /\ pc' = [pc EXCEPT ![j] = "loop"]
  /\ UNCHANGED << schedVars, poolQueue, r_is_stopped, stop_event, proc,
                  returncode, duration, ret, outSeen, srcSeen, trashCalls, popenCalls,
                  trashError, sentFinished, stoppedLive >>

\* SafeToTrash without the size check on the output
SafeToTrashAnySize(j, out, src) ==
  /\ out \in {"valid", "empty"}
  /\ src = "present"
  /\ InputPath(j) # FinalOutputPath(j)

\* the safety checks of the auto-delete block, in the order of the code:
\* output exists and is not empty, input still exists, paths differ
SafeToTrash(j, out, src) ==
  /\ out = "valid"
  /\ src = "present"
  /\ InputPath(j) # FinalOutputPath(j)

\* the files as they are on disk when the auto-delete block runs;
\* send2trash can only raise when it is called, after all checks passed
OnDisk(j, out, src, trashFails) ==
  /\ out \in {"missing", "empty", "valid"}
  /\ src \in {"present", "gone"}
  /\ trashFails => SafeToTrash(j, out, src)

\* readline() returns "" and poll() is not None: the encoder has exited with
\* rc.  returncode 0 -> auto-delete block and (True, ...); else
\* (False, error_msg, None).  out, src: the output and the input on disk;
\* trashFails: send2trash raises
convert_end(j, rc, out, src, trashFails) ==
  /\ pc[j] = "read"
  /\ proc[j] = "running"
  /\ proc' = [proc EXCEPT ![j] = "exited"]
  /\ returncode' = [returncode EXCEPT ![j] = rc]
  /\ IF rc = 0
     THEN /\ IF delete_flag
             THEN OnDisk(j, out, src, trashFails)
             ELSE out = "unchecked" /\ src = "unchecked" /\ ~trashFails
          /\ outSeen' = [outSeen EXCEPT ![j] = out]
          /\ srcSeen' = [srcSeen EXCEPT ![j] = src]
          /\ IF delete_flag /\ SafeToTrash(j, out, src)
             THEN IF trashFails
                  THEN /\ trashError' = [trashError EXCEPT ![j] = TRUE]
                       /\ UNCHANGED trashCalls
                  ELSE /\ trashCalls' = [trashCalls EXCEPT ![j] = @ + 1]
                       /\ UNCHANGED trashError
             ELSE UNCHANGED << trashCalls, trashError >>
          /\ run_end(j, "success")
     ELSE /\ out = "unchecked" /\ src = "unchecked" /\ ~trashFails
          /\ UNCHANGED << outSeen, srcSeen, trashCalls, trashError >>
          /\ run_end(j, "error")
  /\ duration' = [duration EXCEPT ![j] = 0]
  /\ lastMark' = [lastMark EXCEPT ![j] = -1]
  /\ lastSent' = [lastSent EXCEPT ![j] = NoFrac]
  /\ linesRead' = [linesRead EXCEPT ![j] = 0]
  /\ UNCHANGED << schedVars, poolQueue, r_is_stopped, stop_event, stoppedLive,
                  popenCalls >>

\* an encoder that was asked to terminate exits, in its own time
encoder_exits(j) ==
  /\ proc[j] = "terminated"
  /\ proc' = [proc EXCEPT ![j] = IF pc[j] = "exit" THEN "exited" ELSE "none"]
  /\ UNCHANGED << schedVars, evq, poolQueue, pc, r_is_stopped, stop_event,
                  returncode, duration, linesRead, lastMark, lastSent, ret,
                  outSeen, srcSeen, trashCalls, popenCalls, trashError, sentFinished,
                  stoppedLive >>

\* encoder processes that are alive
AliveEncoders == { j \in Jobs : proc[j] \in {"running", "terminated"} }

\* ------------------------------------------------- the caches: operations
\* the conversion engine
engineStateVars == << max_concurrency, total_count, delete_flag, lineBudget,
                      timeMarks, probeDurations, started, is_stopped, workerVars,
                      mainPc, stopPos, evq, poolQueue, pc, jobVars, stoppedLive >>

engineVars == << max_concurrency, total_count, delete_flag, lineBudget,
                 timeMarks, probeDurations, started, is_stopped, workerVars,
                 mainPc, stopPos, evq, poolQueue, pc, jobVars, stoppedLive,
                 callVars >>
gMem == << cache, initialized, loadSaw, loadedAfter >>
gDisk == << final, readable, tmpf >>
gIo == << hnd, snap, attempt, tries, rdContent >>
gEnv == << kind, holdsLeft, restartsLeft >>
gObs == << lookupRes, saveResult, loadRaised, lastRemoval >>

\* "with CACHE_LOCK" (an RLock) can be entered by thread t; ScanCache takes
\* no lock
CanAcquire(t) == kind = "scan" \/ lock \in {0, t}
Acquired(t) == IF kind = "thumb" THEN t ELSE lock
Released(t) == IF lock = t THEN 0 ELSE lock

\* ThumbnailCache(...) / ScanCache(): __new__ returns the singleton, and
\* __init__ returns at once when it is already initialized
construct_begin(t) ==
  /\ cpc[t] = "new"
  /\ cpc' = [cpc EXCEPT ![t] =
               IF kind = "thumb" /\ initialized THEN "idle" ELSE "init"]
  /\ UNCHANGED << engineVars, gMem, gDisk, gIo, gEnv, gObs, lock, opsLeft,
                  holders, thumbFiles, lastSaved >>

\* __init__: self.filename = filename; self.cache = {}
init_reset(t) ==
  /\ cpc[t] = "init"
  /\ cache' = [cache EXCEPT ![Inst(t)] = EmptyMap]
  /\ loadSaw' = [loadSaw EXCEPT ![Inst(t)] = "none"]
  /\ lastSaved' = IF kind = "thumb" THEN NoSaved ELSE lastSaved
  /\ cpc' = [cpc EXCEPT ![t] = "load"]
  /\ UNCHANGED << engineVars, initialized, loadedAfter, gDisk, gIo, gEnv, gObs,
                  lock, opsLeft, holders, thumbFiles >>

\* load() that lets a JSON error reach the caller
LoadCatchesOnlyOSError(err) == err = "os"

\* load() catches the error: ScanCache (OSError, JSONDecodeError) in its
\* retry loop and anything else outside it, ThumbnailCache any Exception
LoadCatches(err) == err \in {"os", "json"}

\* how many times load() tries to read the file
LoadAttempts == IF kind = "scan" THEN LoadTries ELSE 1

\* load() after a failed attempt: ScanCache sleeps and tries again, up to
\* LoadTries times, and then keeps the empty map; ThumbnailCache logs and
\* sets self.cache = {}.  An error that is not caught ends the constructor.
load_failed(t, err, what) ==
  /\ tries' = [tries EXCEPT ![t] = @ + 1]
  /\ IF ~LoadCatches(err)
     THEN /\ loadRaised' = [loadRaised EXCEPT ![t] = TRUE]
          /\ cpc' = [cpc EXCEPT ![t] = "idle"]
          /\ lock' = Released(t)
          /\ UNCHANGED << cache, loadSaw >>
     ELSE IF tries[t] + 1 < LoadAttempts
     THEN /\ cpc' = [cpc EXCEPT ![t] = "l_loop"]
          /\ UNCHANGED << cache, loadSaw, loadRaised, lock >>
     ELSE /\ cpc' = [cpc EXCEPT ![t] = "init_done"]
          /\ cache' = [cache EXCEPT ![Inst(t)] =
                         IF kind = "thumb" THEN EmptyMap ELSE @]
          /\ loadSaw' = [loadSaw EXCEPT ![Inst(t)] = what]
          /\ lock' = Released(t)
          /\ UNCHANGED loadRaised

\* load(): "if not os.path.exists: return", else open the file for reading
\* (cpc "l_loop": a later attempt of ScanCache's loop, without the check)
load_open(t) ==
  /\ cpc[t] \in {"load", "l_loop"}
  /\ CanAcquire(t)
  /\ IF cpc[t] = "load" /\ final.st = "absent"
     THEN /\ cpc' = [cpc EXCEPT ![t] = "init_done"]
          /\ loadSaw' = [loadSaw EXCEPT ![Inst(t)] =
                           IF @ = "changed" THEN @ ELSE "missing"]
          /\ lock' = lock
          /\ UNCHANGED << cache, loadRaised, tries, holders, rdContent,
                          loadedAfter >>
     ELSE IF final.st = "absent" \/ ~readable
     THEN /\ load_failed(t, "os", IF readable THEN "missing" ELSE "unreadable")
          /\ UNCHANGED << holders, rdContent, loadedAfter >>
     ELSE /\ holders' = holders \cup {t}
          /\ rdContent' = [rdContent EXCEPT ![t] = final]
          /\ loadedAfter' = [loadedAfter EXCEPT ![Inst(t)] = lastSaved]
          /\ lock' = Acquired(t)
          /\ cpc' = [cpc EXCEPT ![t] = "l_read"]
          /\ UNCHANGED << cache, loadSaw, loadRaised, tries >>
  /\ UNCHANGED << engineVars, initialized, gDisk, hnd, snap, attempt, gEnv,
                  lookupRes, saveResult, lastRemoval, opsLeft, thumbFiles,
                  lastSaved >>

\* load(): self.cache = json.load(f), and the file is closed
load_read(t) ==
  /\ cpc[t] = "l_read"
  /\ holders' = holders \ {t}
  /\ IF WellFormed(rdContent[t])
     THEN /\ cache' = [cache EXCEPT ![Inst(t)] = Parse(rdContent[t].doc)]
          /\ loadSaw' = [loadSaw EXCEPT ![Inst(t)] = "doc"]
          /\ cpc' = [cpc EXCEPT ![t] = "init_done"]
          /\ lock' = Released(t)
          /\ UNCHANGED << tries, loadRaised >>
     ELSE load_failed(t, "json", "corrupt")
  /\ rdContent' = [rdContent EXCEPT ![t] = Absent]
  /\ lastRemoval' = IF lastRemoval.returned /\ kind = "thumb"
                    THEN [lastRemoval EXCEPT !.reloaded = TRUE]
                    ELSE lastRemoval
  /\ UNCHANGED << engineVars, initialized, loadedAfter, gDisk, hnd, snap,
                  attempt, gEnv, lookupRes, saveResult, opsLeft,
                  thumbFiles, lastSaved >>

\* __init__: self._initialized = True; the constructor returns
init_done(t) ==
  /\ cpc[t] = "init_done"
  /\ initialized' = (kind = "thumb")
  /\ tries' = [tries EXCEPT ![t] = 0]
  /\ cpc' = [cpc EXCEPT ![t] = "idle"]
  /\ UNCHANGED << engineVars, cache, loadSaw, loadedAfter, gDisk, hnd, snap,
                  attempt, rdContent, gEnv, gObs, lock, opsLeft, holders,
                  thumbFiles, lastSaved >>

\* |a - b|
Abs(x) == IF x < 0 THEN -x ELSE x

\* ScanCache.get_cached_result on map m
get_cached_result(m, p, mt, sz) ==
  IF m[p].has /\ m[p].mtime = mt /\ m[p].size = sz
  THEN Hit(m[p].value)
  ELSE Miss

\* get_entry that accepts a difference of exactly the tolerance
get_entry_inclusive(m, files, p, mt, sz) ==
  IF /\ m[p].has
     /\ Abs(m[p].mtime - mt) <= MtimeTolerance
     /\ m[p].size = sz
     /\ m[p].value \in files
  THEN Hit(m[p].value)
  ELSE Miss

\* ThumbnailCache.get_entry on map m, files being the thumbnails on disk
get_entry(m, files, p, mt, sz) ==
  IF /\ m[p].has
     /\ Abs(m[p].mtime - mt) < MtimeTolerance
     /\ m[p].size = sz
     /\ m[p].value \in files
  THEN Hit(m[p].value)
  ELSE Miss

\* a caller's lookup(path, mtime, size); its result is kept in lookupRes
lookup(t, p, mt, sz) ==
  /\ cpc[t] = "idle"
  /\ CanAcquire(t)
  /\ lookupRes' =
       [by |-> t, path |-> p, mtime |-> mt, size |-> sz,
        res |-> IF kind = "thumb"
                THEN get_entry(cache[Inst(t)], thumbFiles, p, mt, sz)
                ELSE get_cached_result(cache[Inst(t)], p, mt, sz),
        saw |-> loadSaw[Inst(t)], after |-> loadedAfter[Inst(t)]]
  /\ UNCHANGED << engineVars, gMem, gDisk, gIo, gEnv, saveResult, loadRaised,
                  lastRemoval, lock, cpc, opsLeft, holders, thumbFiles,
                  lastSaved >>

\* update_entry / update_result: thread t stores the entry of its own path;
\* withFile says whether the thumbnail it names was written to disk
update_entry(t, mt, sz, withFile) ==
  /\ cpc[t] = "idle"
  /\ opsLeft[t] > 0
  /\ CanAcquire(t)
  /\ withFile => kind = "thumb"
  /\ opsLeft' = [opsLeft EXCEPT ![t] = @ - 1]
  /\ cache' = [cache EXCEPT ![Inst(t)][t] = Entry(mt, sz, t)]
  /\ loadSaw' = [loadSaw EXCEPT ![Inst(t)] = "changed"]
  /\ thumbFiles' = IF withFile THEN thumbFiles \cup {t} ELSE thumbFiles
  /\ lastSaved' = NoSaved
  /\ lastRemoval' = NoRemoval
  /\ saveResult' = [saveResult EXCEPT ![t] = [NoSave EXCEPT !.stored = TRUE]]
  /\ UNCHANGED << engineVars, initialized, loadedAfter, gDisk, gIo, gEnv,
                  lookupRes, loadRaised, lock, cpc, holders >>

\* the threads that are inside save()
Saving == { t \in Threads : cpc[t] \in {"save", "w1", "w2", "rename"} }

\* save(): take the lock and open the temporary file for writing.  It is
\* entered from a caller (cpc "idle") or from remove_entry / clear / remove_result
\* (cpc "save").
save_open(t) ==
  /\ \/ cpc[t] = "idle" /\ opsLeft[t] > 0
        /\ opsLeft' = [opsLeft EXCEPT ![t] = @ - 1]
     \/ cpc[t] = "save" /\ UNCHANGED opsLeft
  /\ CanAcquire(t)
  /\ lock' = Acquired(t)
  /\ snap' = [snap EXCEPT ![t] = Dump(cache[Inst(t)])]
  /\ tmpf' = [tmpf EXCEPT ![TempName(t)] = EmptyFile]
  /\ hnd' = [hnd EXCEPT ![t] = "tmp"]
  /\ attempt' = [attempt EXCEPT ![t] = 0]
  /\ saveResult' = [saveResult EXCEPT ![t] =
                      [NoSave EXCEPT !.stored = saveResult[t].stored]]
  /\ lastSaved' = NoSaved
  /\ cpc' = [cpc EXCEPT ![t] = "w1"]
  /\ UNCHANGED << engineVars, gMem, final, readable, tries, rdContent, gEnv,
                  lookupRes, loadRaised, lastRemoval, holders, thumbFiles >>

\* save(): json.dump writes the document in parts through the open handle,
\* which follows the file when that was renamed meanwhile; after the last
\* part the file is closed
save_write(t) ==
  /\ cpc[t] \in {"w1", "w2"}
  /\ LET k == IF cpc[t] = "w1" THEN 1 ELSE 2
     IN /\ IF hnd[t] = "tmp"
           THEN /\ tmpf' = [tmpf EXCEPT ![TempName(t)] =
                              WriteChunk(@, snap[t], k)]
                /\ final' = final
           ELSE /\ final' = WriteChunk(final, snap[t], k)
                /\ tmpf' = tmpf
        /\ cpc' = [cpc EXCEPT ![t] = IF k = 1 THEN "w2" ELSE "rename"]
        /\ hnd' = [hnd EXCEPT ![t] = IF k = 1 THEN @ ELSE "none"]
  /\ UNCHANGED << engineVars, gMem, readable, snap, attempt, tries, rdContent,
                  gEnv, gObs, lock, opsLeft, holders, thumbFiles, lastSaved >>

\* the number of times save() attempts the rename
RenameAttempts == IF kind = "thumb" THEN max_retries ELSE 1

\* the rename can fail: the temporary file is gone, or somebody has the
\* cache file open (a sharing violation where the platform has them)
RenameMayFail(t) == tmpf[TempName(t)].st = "absent" \/ holders # {}
RenameMustFail(t) == tmpf[TempName(t)].st = "absent"

\* save(): os.replace / os.rename of the temporary file onto the cache file;
\* on OSError another attempt, or after the last one the error is logged
\* and the temporary file removed; then save() returns
save_rename(t, fails) ==
  /\ cpc[t] = "rename"
  /\ fails => RenameMayFail(t)
  /\ RenameMustFail(t) => fails
  /\ attempt' = [attempt EXCEPT ![t] = @ + 1]
  /\ IF ~fails
     THEN /\ final' = tmpf[TempName(t)]
          /\ readable' = TRUE
          /\ tmpf' = [tmpf EXCEPT ![TempName(t)] = Absent]
          /\ hnd' = [u \in Threads |->
                       IF u # t /\ hnd[u] = "tmp" /\ TempName(u) = TempName(t)
                       THEN "final" ELSE hnd[u]]
          /\ saveResult' = [saveResult EXCEPT ![t] =
                              [st |-> "ok", attempts |-> attempt[t] + 1,
                               stored |-> @.stored]]
          /\ lastSaved' = IF Saving = {t} /\ WellFormed(tmpf[TempName(t)])
                          THEN [valid |-> TRUE, map |-> Parse(snap[t])]
                          ELSE NoSaved
     ELSE /\ UNCHANGED << final, readable, hnd >>
          /\ lastSaved' = NoSaved
          /\ IF attempt[t] + 1 < RenameAttempts
             THEN UNCHANGED << tmpf, saveResult >>
             ELSE /\ tmpf' = [tmpf EXCEPT ![TempName(t)] = Absent]
                  /\ saveResult' = [saveResult EXCEPT ![t] =
                                      [st |-> "error",
                                       attempts |-> attempt[t] + 1,
                                       stored |-> @.stored]]
  /\ LET returns == ~fails \/ attempt[t] + 1 >= RenameAttempts
     IN /\ cpc' = [cpc EXCEPT ![t] = IF returns THEN "idle" ELSE @]
        /\ lock' = IF returns THEN Released(t) ELSE lock
        /\ lastRemoval' = IF returns /\ lastRemoval.by = t
                             /\ ~lastRemoval.returned
                          THEN [lastRemoval EXCEPT !.returned = TRUE,
                                                   !.persisted = ~fails]
                          ELSE lastRemoval
  /\ UNCHANGED << engineVars, gMem, snap, tries, rdContent, gEnv, lookupRes,
                  loadRaised, opsLeft, holders, thumbFiles >>

\* the thumbnails that entries of map m name and that exist on disk
ThumbsOf(m, ps) == { p \in ps : m[p].has /\ m[p].value \in thumbFiles }

\* a removal that leaves the entry in the map
WithoutNothing(m, p) == m

\* del self.cache[key]
Without(m, p) == [m EXCEPT ![p] = NoEntry]

\* remove_entry(path) / remove_result(path): when the path has an entry,
\* delete its thumbnail if it exists (an OSError is ignored: undeleted is
\* the set of thumbnails os.remove failed on), delete the entry, and save()
remove_entry(t, p, undeleted) ==
  /\ cpc[t] = "idle"
  /\ opsLeft[t] > 0
  /\ CanAcquire(t)
  /\ undeleted \subseteq (IF kind = "thumb"
                          THEN ThumbsOf(cache[Inst(t)], {p}) ELSE {})
  /\ opsLeft' = [opsLeft EXCEPT ![t] = @ - 1]
  /\ IF cache[Inst(t)][p].has
     THEN /\ thumbFiles' = IF kind = "thumb"
                           THEN (thumbFiles \ {cache[Inst(t)][p].value})
                                  \cup undeleted
                           ELSE thumbFiles
          /\ cache' = [cache EXCEPT ![Inst(t)] = Without(@, p)]
          /\ loadSaw' = [loadSaw EXCEPT ![Inst(t)] = "changed"]
          /\ lock' = Acquired(t)
          /\ cpc' = [cpc EXCEPT ![t] = "save"]
          /\ lastSaved' = NoSaved
          /\ lastRemoval' =
               [op |-> "remove", by |-> t, path |-> p,
                before |-> cache[Inst(t)], filesBefore |-> thumbFiles,
                failed |-> undeleted, returned |-> FALSE,
                persisted |-> FALSE, reloaded |-> FALSE]
          /\ lookupRes' = NoLookup
     ELSE UNCHANGED << thumbFiles, cache, loadSaw, lock, cpc, lastSaved,
                       lastRemoval, lookupRes >>
  /\ UNCHANGED << engineVars, initialized, loadedAfter, gDisk, gIo, gEnv,
                  saveResult, loadRaised, holders >>

\* ThumbnailCache.clear(): delete every entry's thumbnail that exists
\* (OSError ignored), empty the map, and save()
clear(t, undeleted) ==
  /\ kind = "thumb"
  /\ cpc[t] = "idle"
  /\ opsLeft[t] > 0
  /\ CanAcquire(t)
  /\ undeleted \subseteq ThumbsOf(cache[Inst(t)], Paths)
  /\ opsLeft' = [opsLeft EXCEPT ![t] = @ - 1]
  /\ thumbFiles' = (thumbFiles \ ThumbsOf(cache[Inst(t)], Paths))
                     \cup undeleted
  /\ cache' = [cache EXCEPT ![Inst(t)] = EmptyMap]
  /\ loadSaw' = [loadSaw EXCEPT ![Inst(t)] = "changed"]
  /\ lock' = Acquired(t)
  /\ cpc' = [cpc EXCEPT ![t] = "save"]
  /\ lastSaved' = NoSaved
  /\ lastRemoval' =
       [op |-> "clear", by |-> t, path |-> 0,
        before |-> cache[Inst(t)], filesBefore |-> thumbFiles,
        failed |-> undeleted, returned |-> FALSE,
        persisted |-> FALSE, reloaded |-> FALSE]
  /\ lookupRes' = NoLookup
  /\ UNCHANGED << engineVars, initialized, loadedAfter, gDisk, gIo, gEnv,
                  saveResult, loadRaised, holders >>

\* another program (a second instance of the application, an indexer, a
\* virus scanner) opens the cache file, and closes it again
other_opens ==
  /\ holdsLeft > 0
  /\ final.st # "absent"
  /\ 0 \notin holders
  /\ holders' = holders \cup {0}
  /\ holdsLeft' = holdsLeft - 1
  /\ UNCHANGED << engineVars, gMem, gDisk, gIo, kind, restartsLeft, gObs, lock,
                  cpc, opsLeft, thumbFiles, lastSaved >>

other_closes ==
  /\ 0 \in holders
  /\ holders' = holders \ {0}
  /\ UNCHANGED << engineVars, gMem, gDisk, gIo, gEnv, gObs, lock, cpc, opsLeft,
                  thumbFiles, lastSaved >>

\* the process dies at any point (a crash, a kill, power loss) and the
\* application is started again: memory and open handles are gone, the
\* files stay as they are
crash_restart ==
  /\ restartsLeft > 0
  /\ \E t \in Threads : cpc[t] # "new"
  /\ restartsLeft' = restartsLeft - 1
  /\ cache' = [t \in Threads |-> EmptyMap]
  /\ initialized' = FALSE
  /\ loadSaw' = [t \in Threads |-> "none"]
  /\ loadedAfter' = [t \in Threads |-> NoSaved]
  /\ lock' = 0
  /\ cpc' = [t \in Threads |-> "new"]
  /\ hnd' = [t \in Threads |-> "none"]
  /\ snap' = [t \in Threads |-> {}]
  /\ attempt' = [t \in Threads |-> 0]
  /\ tries' = [t \in Threads |-> 0]
  /\ rdContent' = [t \in Threads |-> Absent]
  /\ holders' = holders \cap {0}
  /\ lookupRes' = NoLookup
  /\ saveResult' = [t \in Threads |-> NoSave]
  /\ lastRemoval' = IF lastRemoval.returned
                    THEN [lastRemoval EXCEPT !.reloaded = TRUE]
                    ELSE NoRemoval
  /\ UNCHANGED << engineVars, gDisk, kind, holdsLeft, loadRaised, opsLeft,
                  thumbFiles, lastSaved >>

\* ------------------------------------------------- specification
OutFindings == {"unchecked", "missing", "empty", "valid"}
SrcFindings == {"unchecked", "present", "gone"}
CancelFindings == {"unchecked", "missing", "removed", "remove_failed"}

\* job threads that are inside run()
Running == { k \in Jobs : InRun(pc[k]) }

\* the steps of the job threads
JobNext ==
  \/ \E j \in Running, ok \in BOOLEAN : run_begin(j, ok)
  \/ \E j \in Running, dur \in probeDurations : convert_begin(j, dur)
  \/ \E j \in Running : convert_launch_error(j)
  \/ \E j \in Running, found \in CancelFindings : convert_loop_check(j, found)
  \/ \E j \in Running, t \in timeMarks : convert_read_progress(j, t)
  \/ \E j \in Running, rc \in {0, 1}, out \in OutFindings, src \in SrcFindings,
        trashFails \in BOOLEAN : convert_end(j, rc, out, src, trashFails)
  \/ \E j \in Running : thread_exit(j)

Next ==
  \/ start
  \/ on_item_progress
  \/ on_item_finished
  \/ stop
  \/ stop_loop
  \/ stop_wait_done
  \/ JobNext
  \/ \E j \in Jobs : encoder_exits(j)

Spec == Init /\ [][Next]_vars

SpecOne == InitOne /\ [][Next]_vars

\* Scheduling: the GUI event loop delivers every queued signal, stop() runs
\* to its end once called, every pool thread keeps running, and every encoder
\* eventually exits (convert_end, encoder_exits).  Nothing obliges the user to
\* call stop().
Fairness ==
  /\ WF_vars(on_item_progress)
  /\ WF_vars(on_item_finished)
  /\ WF_vars(stop_loop)
  /\ WF_vars(stop_wait_done)
  /\ WF_vars(JobNext)
  /\ WF_vars(\E j \in Jobs : encoder_exits(j))

FairSpec == InitFair /\ [][Next]_vars /\ Fairness

\* the steps a pool thread takes on its own: everything but the return of
\* readline(), which waits for the encoder to print a line or to exit
ThreadSteps ==
  \/ \E j \in Running, ok \in BOOLEAN : run_begin(j, ok)
  \/ \E j \in Running, dur \in probeDurations : convert_begin(j, dur)
  \/ \E j \in Running : convert_launch_error(j)
  \/ \E j \in Running, found \in CancelFindings : convert_loop_check(j, found)
  \/ \E j \in Running : thread_exit(j)

\* Scheduling when an encoder may hang: the GUI event loop, stop() and the
\* pool threads keep running and a terminated encoder exits, but nothing
\* obliges a running encoder to print a line or to exit
SilentFairness ==
  /\ WF_vars(on_item_progress)
  /\ WF_vars(on_item_finished)
  /\ WF_vars(stop_loop)
  /\ WF_vars(stop_wait_done)
  /\ WF_vars(ThreadSteps)
  /\ WF_vars(\E j \in Jobs : encoder_exits(j))

SilentSpec == InitFair /\ [][Next]_vars /\ SilentFairness

\* ------------------------------------------------- the caches on their own
\* what the cache file can hold when the application starts: nothing, a
\* document written by an earlier run, or bytes that are not JSON
OldEntry == Entry(0, 500, 1)
OldMap == [EmptyMap EXCEPT ![1] = OldEntry]
StartFiles == { Absent, Whole(Dump(OldMap)), Garbled }

\* the steps of a thread that constructs a cache
ConstructNext(t) ==
  \/ construct_begin(t)
  \/ init_reset(t)
  \/ load_open(t)
  \/ load_read(t)
  \/ init_done(t)

\* the steps of a thread that stores entries and persists the cache
StoreNext(t) ==
  \/ \E mt \in StoredMtimes, sz \in StoredSizes, withFile \in BOOLEAN :
        update_entry(t, mt, sz, withFile)
  \/ save_open(t)
  \/ save_write(t)
  \/ \E fails \in BOOLEAN : save_rename(t, fails)

\* the steps of a thread that removes entries
RemoveNext(t) ==
  \/ \E p \in Paths, undeleted \in SUBSET Paths : remove_entry(t, p, undeleted)
  \/ \E undeleted \in SUBSET Paths : clear(t, undeleted)

\* the application's threads and what is around them
CacheNext ==
  \/ \E t \in Threads : ConstructNext(t)
  \/ \E t \in Threads : StoreNext(t)
  \/ \E t \in Threads : RemoveNext(t)
  \/ other_opens
  \/ other_closes
  \/ crash_restart

\* the conversion engine idle, and a cache of one of the kinds whose file
\* holds one of the contents in files; thread 1 does up to MaxOps operations,
\* the other threads up to ops, and another program opens the file up to
\* holds times
CacheStart(kinds, files, ops, holds) ==
  /\ max_concurrency = 1
  /\ total_count = 0
  /\ delete_flag = FALSE
  /\ lineBudget = 0
  /\ timeMarks = {}
  /\ probeDurations = {}
  /\ EngineRest
  /\ NoCall
  /\ kind \in kinds
  /\ cache = [t \in Threads |-> EmptyMap]
  /\ initialized = FALSE
  /\ lock = 0
  /\ cpc = [t \in Threads |-> "new"]
  /\ opsLeft = [t \in Threads |-> IF t = 1 THEN MaxOps ELSE ops]
  /\ final \in files
  /\ readable \in IF final = Absent THEN {TRUE} ELSE BOOLEAN
  /\ tmpf = [n \in TempNames |-> Absent]
  /\ hnd = [t \in Threads |-> "none"]
  /\ snap = [t \in Threads |-> {}]
  /\ attempt = [t \in Threads |-> 0]
  /\ tries = [t \in Threads |-> 0]
  /\ rdContent = [t \in Threads |-> Absent]
  /\ holders = {}
  /\ holdsLeft = holds
  /\ restartsLeft = MaxRestarts
  /\ thumbFiles \in IF kind = "thumb" /\ WellFormed(final)
                     THEN SUBSET {1} ELSE {{}}
  /\ lookupRes = NoLookup
  /\ saveResult = [t \in Threads |-> NoSave]
  /\ loadRaised = [t \in Threads |-> FALSE]
  /\ lastRemoval = NoRemoval
  /\ lastSaved = NoSaved
  /\ loadedAfter = [t \in Threads |-> NoSaved]
  /\ loadSaw = [t \in Threads |-> "none"]

CacheInit == CacheStart({"scan", "thumb"}, StartFiles, MaxOpsOther, MaxHolds)

CacheSpec == CacheInit /\ [][CacheNext]_vars

\* callers that look entries up, store and persist, while nobody else has
\* the file open
LookupNext ==
  \/ \E t \in Threads : ConstructNext(t)
  \/ \E t \in Threads : StoreNext(t)
  \/ \E t \in Threads, p \in Paths, mt \in Mtimes, sz \in Sizes :
        lookup(t, p, mt, sz)
  \/ crash_restart

LookupInit == CacheStart({"scan", "thumb"}, StartFiles, 0, 0)

LookupSpec == LookupInit /\ [][LookupNext]_vars

\* the thumbnail threads of the main window: each constructs the
\* ThumbnailCache, stores its entry and saves (ThumbnailRunnable.run, and
\* the worker of test_race_condition)
RaceNext ==
  \/ \E t \in Threads : ConstructNext(t)
  \/ \E t \in Threads : StoreNext(t)

RaceInit == CacheStart({"thumb"}, {Absent, Whole(Dump(OldMap))}, MaxOps, 0)

RaceSpec == RaceInit /\ [][RaceNext]_vars

\* ------------------------------------------------- properties
\* the job's thread stands at the return of run(): what the supervisor
\* returned and found is still visible
AtReturn(j) == pc[j] = "exit"

\* the five conditions of the auto-delete contract ("valid": the output
\* exists and its size is > 0)
AllFiveHold(j) ==
  /\ returncode[j] = 0
  /\ delete_flag
  /\ outSeen[j] = "valid"
  /\ InputPath(j) # FinalOutputPath(j)

\* C1 as stated: when a supervisor has returned, the source was moved to
\* trash exactly once if exit status 0, delete-source requested, output
\* exists, output size > 0 and the paths differ, and never otherwise.
C1_TrashIffFiveChecks ==
  \A j \in Jobs : AtReturn(j) =>
     IF AllFiveHold(j) THEN trashCalls[j] = 1 ELSE trashCalls[j] = 0

\* C1 amended: the source is moved to trash at most once, and exactly once
\* if and only if the five conditions hold and, in addition, the source file
\* still exists and send2trash raises no error.
C1_TrashIffChecksAndNoError ==
  \A j \in Jobs :
    /\ trashCalls[j] <= 1
    /\ AtReturn(j) =>
         (trashCalls[j] = 1 <=>
            (AllFiveHold(j) /\ srcSeen[j] = "present" /\ ~trashError[j]))

C1_Witness ==
  \E j \in Jobs : AtReturn(j) /\ AllFiveHold(j) /\ trashCalls[j] = 1

\* C2 as stated: a job on which stop() acted while its supervisor had not
\* returned ends Cancelled: its supervisor returns neither success nor error.
C2_StoppedJobsEndCancelled ==
  \A j \in Jobs :
    (AtReturn(j) /\ stoppedLive[j]) => ret[j] \notin {"success", "error"}

\* C3: at most max_concurrency supervisors run at any time: runnables in the
\* active list, pool threads inside run(), and live encoder processes.
C3_AtMostN ==
  /\ Len(active_runnables) <= max_concurrency
  /\ Cardinality(ActiveThreads) <= max_concurrency
  /\ Cardinality(AliveEncoders) <= max_concurrency

C3_Witness ==
  /\ max_concurrency = 2
  /\ Cardinality({ j \in Jobs : proc[j] = "running" }) = 2
  /\ next_index < total_count

\* C4: batch_finished is emitted at most once; when it has been emitted every
\* job of the batch has reported its terminal state and none is pending or
\* active; and it has been emitted once all jobs have reported.
C4_BatchFinishedOnce ==
  /\ batch_finished <= 1
  /\ batch_finished = 1 =>
       /\ completed_count = total_count
       /\ next_index = total_count
       /\ active_runnables = << >>
       /\ \A j \in 1..total_count :
             file_finished[j] = 1 /\ pc[j] \in {"exit", "returned"}
  /\ (started /\ completed_count = total_count) => batch_finished = 1

C4_Witness ==
  batch_finished = 1 /\ total_count = NumJobs /\ max_concurrency = 2

\* a terminal state of the job, as reported by what run() got
Terminal(j) == AtReturn(j) /\ ret[j] \in {"success", "error", "cancelled", "no_options"}

\* C5 as stated: a job that reached a terminal state (Succeeded, Failed or
\* Cancelled) has emitted exactly one finished event.
C5_ExactlyOneFinished ==
  \A j \in Jobs : Terminal(j) => sentFinished[j] = 1

\* C5 amended: no job yields more than one finished event; a job that ends
\* Succeeded or Failed while stop() has not been called yields exactly one; a
\* job that ends Cancelled yields none.
C5_OneFinishedUnlessStopped ==
  \A j \in Jobs :
    /\ sentFinished[j] <= 1
    /\ file_finished[j] <= sentFinished[j]
    /\ (Terminal(j) /\ ret[j] # "cancelled" /\ ~is_stopped) => sentFinished[j] = 1
    /\ (Terminal(j) /\ ret[j] = "cancelled") => sentFinished[j] = 0

C5_Witness ==
  \E j, k \in Jobs :
    /\ Terminal(j) /\ ret[j] = "cancelled" /\ sentFinished[j] = 0
    /\ file_finished[k] = 1

\* C6: once stop() has been called the worker emits nothing more
\* (file_finished, batch_finished, progress_updated, file_started), changes no
\* recorded progress and launches no pending job.
C6_SilentAfterStop ==
  [][ is_stopped =>
        /\ file_finished' = file_finished
        /\ batch_finished' = batch_finished
        /\ progress_updated' = progress_updated
        /\ file_progress_map' = file_progress_map
        /\ file_started' = file_started
        /\ next_index' = next_index
        /\ active_runnables' = active_runnables ]_vars

\* a finished signal was sent by a job thread, and ignored after stop()
C6_Witness ==
  /\ is_stopped
  /\ mainPc = "idle"
  /\ evq = << >>
  /\ \E j \in Jobs : sentFinished[j] = 1 /\ file_finished[j] = 0

\* C8: jobs are launched in submission order, their threads start in that
\* order, and between two handlers of a running batch either max_concurrency
\* runnables are active or no pending job remains.
C8_FifoAndNoIdleSlot ==
  /\ file_started = [i \in 1..next_index |-> queue_items(i - 1)]
  /\ \A i, j \in Jobs :
        (i < j /\ pc[j] \notin {"new", "queued", "cleared"})
           => pc[i] \notin {"new", "queued", "cleared"}
  /\ (started /\ ~is_stopped) =>
        (Len(active_runnables) = max_concurrency \/ next_index = total_count)

C8_Witness ==
  /\ started /\ ~is_stopped
  /\ completed_count >= 1
  /\ Len(active_runnables) = 2
  /\ next_index = total_count

\* C9 as stated: the 'deleted' field of a finished event is true exactly when
\* the source of that job was moved to trash.
C9_DeletedFieldIsTruth ==
  \A i \in 1..Len(evq) :
    evq[i].kind = "finished" =>
       (evq[i].deleted <=> trashCalls[evq[i].job] = 1)

\* C7 as stated: once start() has been called, batch_finished is eventually
\* emitted.
C7_AlwaysBatchFinished == started ~> (batch_finished = 1)

\* C7 amended: once start() has been called, batch_finished is eventually
\* emitted unless stop() is called.
C7_BatchFinishedUnlessStopped == started ~> (batch_finished = 1 \/ is_stopped)

\* the batch finished although its last job failed
C7_Witness ==
  /\ batch_finished = 1
  /\ total_count = FairJobs
  /\ \E j \in Jobs : AtReturn(j) /\ ret[j] = "error"

\* a fraction between 0.0 and 1.0
InUnit(f) == FracLeq(Zero, f) /\ FracLeq(f, One)

\* C10 as stated: the fractions given to a job's progress events never
\* decrease and lie in [0.0, 1.0], whatever markers the encoder prints.
C10_NeverDecreases ==
  [][\A j \in Jobs :
       lastSent'[j] # NoFrac =>
         /\ InUnit(lastSent'[j])
         /\ lastSent[j] # NoFrac => FracLeq(lastSent[j], lastSent'[j])]_vars

\* C10 amended: every fraction lies in [0.0, 1.0], and the fractions never
\* decrease as long as the elapsed-time markers the encoder prints do not.
C10_MonotoneWhenMarkersAre ==
  [][\A j \in Jobs :
       lastSent'[j] # NoFrac =>
         /\ InUnit(lastSent'[j])
         /\ (lastSent[j] # NoFrac /\ lastMark[j] <= lastMark'[j])
              => FracLeq(lastSent[j], lastSent'[j])]_vars

\* a progress event of one half is in flight and a later one was clamped to 1
C10_Witness ==
  /\ \E i \in 1..Len(evq) :
       evq[i].kind = "progress" /\ evq[i].frac = << 30, 60 >>
  /\ lastSent[1] = One
  /\ lastMark[1] = 90

\* equality of two fractions
FracEq(f, g) == f[1] * g[2] = g[1] * f[2]

\* the fraction the claim assigns to a job: 1.0 once its finished event was
\* handled, 0.0 while its thread has not started, else its latest fraction
LatestFraction(j) ==
  IF file_finished[j] = 1 THEN One
  ELSE IF pc[j] \in {"new", "queued", "cleared"} THEN Zero
  ELSE file_progress_map[j]

\* C11: the global progress last emitted equals the sum of the jobs' latest
\* fractions (finished 1.0, not started 0.0) divided by total_count; it lies
\* in [0.0, 1.0] and is 1.0 when batch_finished has been emitted.
C11_GlobalProgressIsMean ==
  progress_updated # NoFrac =>
    /\ total_count > 0
    /\ LET t == SumProgress([j \in Jobs |-> LatestFraction(j)], total_count)
       IN FracEq(progress_updated, << t[1], t[2] * total_count >>)
    /\ FracLeq(Zero, progress_updated) /\ FracLeq(progress_updated, One)
    /\ batch_finished = 1 => FracEq(progress_updated, One)

\* one job has finished and the other is half way: three quarters emitted
C11_Witness ==
  /\ total_count = 2
  /\ file_finished[1] = 1
  /\ file_progress_map[2] = << 30, 60 >>
  /\ FracEq(progress_updated, << 3, 4 >>)

\* C12 as stated: once stop() has returned, no encoder process spawned by the
\* batch is still alive.
C12_NoEncoderAliveAfterStop ==
  (is_stopped /\ mainPc = "idle") => AliveEncoders = {}

\* how many times job j occurs in a sequence of jobs
Occurrences(seq, j) == Cardinality({ i \in 1..Len(seq) : seq[i] = j })

\* C13: no job is retried: at most one encoder is spawned per job, a job is
\* launched and reported at most once, a failed job is reported once, and a
\* reported job is neither active nor queued again.
C13_NoRetry ==
  \A j \in Jobs :
    /\ popenCalls[j] <= 1
    /\ Occurrences(file_started, j) <= 1
    /\ file_finished[j] <= 1
    /\ (AtReturn(j) /\ ret[j] = "error" /\ ~is_stopped) => sentFinished[j] = 1
    /\ file_finished[j] = 1 =>
         /\ pc[j] \in {"exit", "returned"}
         /\ Occurrences(active_runnables, j) = 0
         /\ Occurrences(poolQueue, j) = 0

\* a job whose encoder exited nonzero was reported failed, and a later job of
\* the batch is already running
C13_Witness ==
  \E j, k \in Jobs :
    /\ j < k
    /\ popenCalls[j] = 1 /\ file_finished[j] = 1
    /\ AtReturn(j) /\ ret[j] = "error" /\ returncode[j] = 1
    /\ popenCalls[k] = 1

\* ------------------------------------------------- properties of the caches
\* a step in which a caller looked an entry up
LookupStep == lookupRes' # lookupRes /\ lookupRes'.by # 0

\* the entry the lookup of the step found under its path
EntryLookedUp == cache[Inst(lookupRes'.by)][lookupRes'.path]

RoundTripLookup ==
  /\ lookupRes.by # 0
  /\ lookupRes.saw = "doc"
  /\ lookupRes.after.valid
  /\ lookupRes.after.map[lookupRes.path].has
  /\ lookupRes.after.map[lookupRes.path].mtime = lookupRes.mtime
  /\ lookupRes.after.map[lookupRes.path].size = lookupRes.size

\* C15: for either cache, after storing an entry and persisting, a fresh
\* load from disk followed by a lookup with the identical mtime and size
\* returns the stored value.
C15_RoundTrip ==
  RoundTripLookup
    => lookupRes.res = Hit(lookupRes.after.map[lookupRes.path].value)

\* C16: under any interleaving of concurrent persists, readers, and a crash
\* at any step, the cache file is absent or a complete serialization of one
\* state the map had: whenever the file changes, it becomes the complete
\* document that a persist took from its map; what a persist takes is its
\* map as it then is; a reader gets either what was there at the start or a
\* complete document; and no two persists write into the same file, so no
\* temporary file ever holds bytes of two documents.
C16_AtomicPersist ==
  [][/\ final' # final
          => /\ WellFormed(final')
             /\ \E r \in Threads : cpc[r] = "rename" /\ final' = Whole(snap[r])
      /\ \A t \in Threads :
           /\ (cpc[t] \in {"idle", "save"} /\ cpc'[t] = "w1")
                => snap'[t] = Dump(cache[Inst(t)])
           /\ rdContent'[t] \in StartFiles \/ WellFormed(rdContent'[t])
      /\ \A n \in TempNames : tmpf'[n].st # "garbled"
      /\ \A w, u \in Threads :
           (w # u /\ hnd'[w] = "tmp" /\ hnd'[u] = "tmp")
             => TempName(w) # TempName(u)]_vars

\* the process died while a persist had written half of its temporary
\* file, after an earlier persist had replaced the cache file
C16_Witness ==
  /\ restartsLeft = 0
  /\ \A t \in Threads : cpc[t] = "new"
  /\ \E n \in TempNames : tmpf[n].st = "file" /\ tmpf[n].n = 1
  /\ WellFormed(final)
  /\ final \notin StartFiles

\* C17: for both caches, persist() treats a failing rename as an error only
\* after the last of a small fixed number of attempts (max_retries) failed.
C17_ErrorOnlyAfterRetries ==
  \A t \in Threads :
    saveResult[t].st = "error" => saveResult[t].attempts = max_retries

\* what a load can find instead of a document
BadFile == {"missing", "unreadable", "corrupt"}

AllStoredAndSaved ==
  \A t \in Threads :
    /\ cpc[t] = "idle"
    /\ saveResult[t].stored
    /\ saveResult[t].st = "ok"

\* C19: when the threads concurrently each store a distinct entry in the
\* thumbnail cache and then persist, then after all of them have finished
\* the in-memory map contains every stored entry and the file on disk is a
\* well-formed document that contains every stored entry.
C19_NoLostUpdate ==
  AllStoredAndSaved
    => /\ \A t \in Threads : cache[Inst(t)][t].has
       /\ WellFormed(final)
       /\ \A t \in Threads : Parse(final.doc)[t] = cache[Inst(t)][t]

\* the paths whose entries the last remove_entry / clear removed
Removed ==
  IF lastRemoval.op = "clear"
  THEN { p \in Paths : lastRemoval.before[p].has }
  ELSE IF lastRemoval.op = "remove" THEN {lastRemoval.path} ELSE {}

\* every lookup for path p on the thumbnail cache as it is now would miss
AllLookupsMiss(p) ==
  \A mt \in Mtimes, sz \in Sizes :
    get_entry(cache[1], thumbFiles, p, mt, sz) = Miss

\* C20 as stated: in the thumbnail cache, once remove(path) or clear() has
\* returned, the thumbnail files of the removed entries are deleted, the
\* entries are gone from the map and from the file on disk, and lookups for
\* the removed paths miss, in memory and after reloading from disk.
C20_RemovedForGood ==
  (kind = "thumb" /\ lastRemoval.returned)
    => \A p \in Removed :
         /\ lastRemoval.before[p].value \notin thumbFiles
         /\ ~cache[1][p].has
         /\ WellFormed(final) /\ ~Parse(final.doc)[p].has
         /\ AllLookupsMiss(p)

\* a step in which remove_entry found the entry, or clear ran
RemovalStep ==
  /\ kind = "thumb"
  /\ lastRemoval' # lastRemoval
  /\ lastRemoval'.op # "none"
  /\ ~lastRemoval'.returned

\* C20, amended: remove(path) on a path that has an entry, and clear(),
\* attempt to delete the thumbnail files of the entries they remove (a
\* deletion that fails is ignored and leaves the file), remove those
\* entries from the map, leave every other entry and every other thumbnail
\* file unchanged, and go on to persist.  From then on, as long as no entry
\* is stored again, lookups for the removed paths miss in memory until the
\* map is loaded from disk again, and also after that whenever the persist
\* had succeeded or the thumbnail file had been deleted.
C20_RemovedUnlessFailures ==
  /\ [][RemovalStep
          => LET r == lastRemoval'
                 gone == IF r.op = "clear"
                         THEN { p \in Paths : cache[1][p].has }
                         ELSE {r.path}
             IN /\ cache'[1] = [p \in Paths |->
                                  IF p \in gone THEN NoEntry ELSE cache[1][p]]
                /\ thumbFiles' =
                     (thumbFiles \ { cache[1][p].value : p \in gone })
                       \cup r.failed
                /\ r.failed \subseteq thumbFiles
                /\ cpc'[r.by] = "save"]_vars
  /\ [](kind = "thumb"
          => \A p \in Removed :
               (\/ ~lastRemoval.reloaded
                \/ lastRemoval.persisted
                \/ lastRemoval.before[p].value \notin thumbFiles)
                 => AllLookupsMiss(p))

\* remove_entry has removed one of two entries, the deletion of its
\* thumbnail failed, the persist succeeded, and the map was loaded from disk
\* again: the other entry is still there
C20_Witness ==
  /\ kind = "thumb"
  /\ lastRemoval.op = "remove"
  /\ lastRemoval.returned
  /\ lastRemoval.persisted
  /\ lastRemoval.reloaded
  /\ lastRemoval.failed # {}
  /\ \E q \in Paths \ Removed : lastRemoval.before[q].has /\ cache[1][q].has
  /\ \A t \in Threads : cpc[t] = "idle"

\* ------------------------------------------------- claims C21..C30
\* run() of job j has just found that it has no options
NoOptionsStep(j) == ret[j] # "no_options" /\ ret'[j] = "no_options"

\* C21: a job without pre-supplied options whose options cannot be determined
\* is reported with exactly one finished event, with success = false and the
\* message "Could not determine compression options."; its encoder is not
\* spawned, neither before that event nor after run() has ended
C21_NoOptionsReportedOnce ==
  [][ \A j \in Jobs :
        /\ NoOptionsStep(j) =>
              /\ evq' = Append(evq, [kind |-> "finished", job |-> j, frac |-> Zero,
                                     success |-> FALSE, deleted |-> FALSE,
                                     msg |-> "Could not determine compression options."])
              /\ sentFinished[j] = 0 /\ sentFinished'[j] = 1
              /\ popenCalls'[j] = 0
        /\ pc[j] \in {"exit", "returned", "cleared"} =>
              /\ popenCalls'[j] = popenCalls[j]
              /\ sentFinished'[j] = sentFinished[j] ]_vars

\* a job without options has returned and its event has reached the worker
C21_Witness ==
  \E j \in Jobs :
    /\ pc[j] = "returned" /\ sentFinished[j] = 1 /\ popenCalls[j] = 0
    /\ \E i \in 1..Len(evq) :
         evq[i].job = j /\ evq[i].kind = "finished" /\ evq[i].msg = NoOptionsMessage

\* ------------------------------------------------- the command builder
\* the sides (pixels) a probed video stream may have; 0: no stream found
Sides == { 0, 720, 840, 1080, 1081, 1440, 1500, 1920, 2160, 2560, 3840 }

\* the option dictionaries given to convert_single_file: a constant quality,
\* a bitrate (bits per second), both, or neither, with or without the
\* smooth_motion key
Qualities ==
  { [crf |-> 24], [bitrate |-> 5000000], [crf |-> 20, bitrate |-> 999],
    [smooth_motion |-> FALSE], [smooth_motion |-> TRUE],
    [crf |-> 28, smooth_motion |-> TRUE], [crf |-> 24, smooth_motion |-> FALSE],
    [bitrate |-> 1500999, smooth_motion |-> TRUE],
    [bitrate |-> 5000000, smooth_motion |-> FALSE] }

Min(a, b) == IF a < b THEN a ELSE b
Max(a, b) == IF a < b THEN b ELSE a

\* should_downscale_to_1080p, were it to look at the longest side
should_downscale_by_longest_side(width, height) == Max(width, height) > 1080

\* should_downscale_to_1080p: the shortest side is above 1080
should_downscale_to_1080p(width, height) == Min(width, height) > 1080

get_scale_filter(width, height, has_gpu) ==
  IF has_gpu THEN "scale_cuda=-2:1080" ELSE "scale=-2:1080"

minterpolate_filter ==
  "minterpolate=fps=60:mi_mode=mci:mc_mode=aobmc:me_mode=bidir:vsbmc=1"

\* option.get('smooth_motion', False)
smooth_motion(option) ==
  IF "smooth_motion" \in DOMAIN option THEN option.smooth_motion ELSE FALSE

\* ','.join(parts)
RECURSIVE Join(_)
Join(parts) ==
  IF parts = << >> THEN ""
  ELSE IF Len(parts) = 1 THEN parts[1]
  ELSE parts[1] \o "," \o Join(Tail(parts))

\* cmd_base without the device flags
cmd_base_no_device(has_gpu, input_path) ==
  << "ffmpeg", "-y" >> \o << "-i", input_path >>

\* cmd_base: encoder, '-y', with a GPU the CUDA device for filters and
\* encoder (never '-hwaccel'), '-i', input
cmd_base(has_gpu, input_path) ==
  << "ffmpeg", "-y" >>
  \o (IF has_gpu
      THEN << "-init_hw_device", "cuda=cuda:0", "-filter_hw_device", "cuda" >>
      ELSE << >>)
  \o << "-i", input_path >>

cmd_codec(has_gpu) ==
  IF has_gpu THEN << "-c:v", "hevc_nvenc", "-preset", "p4" >>
  ELSE << "-c:v", "libx265", "-preset", "medium" >>

\* video_filters, were the scale filters appended before the smoothing filter
video_filters_scale_first(has_gpu, smooth, needs_downscale, width, height) ==
  (IF needs_downscale
   THEN IF has_gpu THEN << "hwupload", "scale_cuda=-2:1080:format=nv12" >>
        ELSE << get_scale_filter(width, height, FALSE) >>
   ELSE << >>)
  \o (IF smooth THEN << minterpolate_filter >> ELSE << >>)

\* video_filters: minterpolate if smooth motion is on, then for a downscale
\* hwupload and scale_cuda with a GPU, the plain scale filter without
video_filters(has_gpu, smooth, needs_downscale, width, height) ==
  (IF smooth THEN << minterpolate_filter >> ELSE << >>)
  \o (IF needs_downscale
      THEN IF has_gpu THEN << "hwupload", "scale_cuda=-2:1080:format=nv12" >>
           ELSE << get_scale_filter(width, height, FALSE) >>
      ELSE << >>)

filter_args(filters) ==
  IF filters # << >> THEN << "-vf", Join(filters) >> ELSE << >>

\* quality_args: 'crf' first, then the legacy 'bitrate' in kbit/s, else the
\* default constant quality 24
quality_args(has_gpu, option) ==
  IF "crf" \in DOMAIN option
  THEN IF has_gpu THEN << "-rc", "constqp", "-cq", ToString(option.crf) >>
       ELSE << "-crf", ToString(option.crf) >>
  ELSE IF "bitrate" \in DOMAIN option
  THEN LET bitrate_kbps == option.bitrate \div 1000
       IN IF has_gpu THEN << "-rc", "vbr", "-b:v", ToString(bitrate_kbps) \o "k" >>
          ELSE << "-b:v", ToString(bitrate_kbps) \o "k" >>
  ELSE IF has_gpu THEN << "-rc", "constqp", "-cq", "24" >> ELSE << "-crf", "24" >>

fps_mode_args(smooth) ==
  IF ~smooth THEN << "-fps_mode", "passthrough" >> ELSE << >>

\* the locals of convert_single_file when the command is complete
BuildCommand(a, needs_downscale) ==
  LET smooth == smooth_motion(a.option)
      filters == video_filters(a.has_gpu, smooth, needs_downscale, a.width, a.height)
      base == cmd_base(a.has_gpu, a.input_path)
      codec == cmd_codec(a.has_gpu)
      fargs == filter_args(filters)
      qargs == quality_args(a.has_gpu, a.option)
      fps == fps_mode_args(smooth)
  IN [ needs_downscale |-> needs_downscale, video_filters |-> filters,
       cmd_codec |-> codec, filter_args |-> fargs, quality_args |-> qargs,
       fps_mode_args |-> fps,
       cmd |-> base \o codec \o fargs \o qargs \o fps
               \o << "-c:a", "copy", a.final_output_path >> ]

\* convert_single_file, the probe: width and height of the first video
\* stream (0 without one), needs_downscale
probe_resolution ==
  /\ callPc = "called"
  /\ callArgs.fn = "convert_single_file"
  /\ callResult' = [ needs_downscale |->
                       should_downscale_to_1080p(callArgs.width, callArgs.height) ]
  /\ callPc' = "probed"
  /\ UNCHANGED << callArgs, existing, engineStateVars, cacheVars >>

\* convert_single_file, from "Base command setup" to the complete cmd
build_command ==
  /\ callPc = "probed"
  /\ callArgs.fn = "convert_single_file"
  /\ callResult' = BuildCommand(callArgs, callResult.needs_downscale)
  /\ callPc' = "returned"
  /\ UNCHANGED << callArgs, existing, engineStateVars, cacheVars >>

\* the engine and the caches are not used
CallStart ==
  /\ max_concurrency = 1
  /\ total_count = 0
  /\ delete_flag = FALSE
  /\ lineBudget = 0
  /\ timeMarks = {}
  /\ probeDurations = {}
  /\ EngineRest
  /\ CacheAtRest
  /\ callPc = "called"
  /\ callResult = << >>

BuilderInit ==
  /\ CallStart
  /\ callArgs \in [ fn : {"convert_single_file"}, has_gpu : BOOLEAN,
                     option : Qualities, width : Sides, height : Sides,
                     input_path : {"in.mkv"}, final_output_path : {"in_hevc.mp4"} ]
  /\ existing = {}

BuilderNext == probe_resolution \/ build_command

BuilderSpec == BuilderInit /\ [][BuilderNext]_vars

\* the command of a call of convert_single_file is complete
CommandBuilt == callPc = "returned" /\ callArgs.fn = "convert_single_file"

DeviceInitFlags == << "-init_hw_device", "cuda=cuda:0", "-filter_hw_device", "cuda" >>

\* the argument list in the order of the claim, with the device flags when
\* withDevice holds
OrderedCommand(withDevice) ==
  << "ffmpeg", "-y" >>
  \o (IF withDevice THEN DeviceInitFlags ELSE << >>)
  \o << "-i", callArgs.input_path >>
  \o callResult.cmd_codec \o callResult.filter_args \o callResult.quality_args
  \o callResult.fps_mode_args
  \o << "-c:a", "copy", callArgs.final_output_path >>

NoHardwareDecodeFlag ==
  \A i \in 1..Len(callResult.cmd) : callResult.cmd[i] # "-hwaccel"

\* C22 as stated: the argument list is encoder, overwrite flag, the device
\* flags exactly when hardware mode is on and a filter chain is needed, '-i',
\* source, codec, filter, quality, frame-rate flags, '-c:a', 'copy', output,
\* and never holds a hardware-decode flag
C22_DeviceFlagsOnlyWithFilters ==
  CommandBuilt =>
    /\ callResult.cmd =
         OrderedCommand(callArgs.has_gpu /\ callResult.video_filters # << >>)
    /\ NoHardwareDecodeFlag

\* C22 amended: the same order, with the device flags exactly when hardware
\* mode is on, whether or not a filter chain is attached; no hardware-decode
\* flag is ever present
C22_DeviceFlagsWithHardware ==
  CommandBuilt =>
    /\ callResult.cmd = OrderedCommand(callArgs.has_gpu)
    /\ NoHardwareDecodeFlag

\* a hardware command without a filter chain: 1080p source, no smoothing
C22_Witness ==
  /\ CommandBuilt
  /\ callArgs.has_gpu /\ callResult.video_filters = << >>
  /\ callArgs.width = 1920 /\ callArgs.height = 1080
  /\ callResult.cmd[3] = "-init_hw_device"

\* the filter chain of the claim for a call, as the text of the '-vf' value
ExpectedChain(has_gpu, smooth, down) ==
  IF smooth /\ down
  THEN IF has_gpu
       THEN "minterpolate=fps=60:mi_mode=mci:mc_mode=aobmc:me_mode=bidir:vsbmc=1,hwupload,scale_cuda=-2:1080:format=nv12"
       ELSE "minterpolate=fps=60:mi_mode=mci:mc_mode=aobmc:me_mode=bidir:vsbmc=1,scale=-2:1080"
  ELSE IF smooth
  THEN "minterpolate=fps=60:mi_mode=mci:mc_mode=aobmc:me_mode=bidir:vsbmc=1"
  ELSE IF has_gpu THEN "hwupload,scale_cuda=-2:1080:format=nv12"
  ELSE "scale=-2:1080"

SmoothingOn ==
  "smooth_motion" \in DOMAIN callArgs.option /\ callArgs.option.smooth_motion

DownscaleNeeded == callArgs.width > 1080 /\ callArgs.height > 1080

\* C23: a filter chain is attached iff smoothing is on or a downscale is
\* needed; when attached it is the smoothing filter first (if on), then, only
\* for a downscale, upload and device-side scale in hardware mode or the
\* plain scale filter in software mode
C23_FilterChain ==
  CommandBuilt =>
    IF SmoothingOn \/ DownscaleNeeded
    THEN callResult.filter_args =
           << "-vf", ExpectedChain(callArgs.has_gpu, SmoothingOn, DownscaleNeeded) >>
    ELSE /\ callResult.filter_args = << >>
         /\ \A i \in 1..Len(callResult.cmd) : callResult.cmd[i] # "-vf"

\* a hardware command for a 4K source with smoothing: all three filters
C23_Witness ==
  /\ CommandBuilt
  /\ callArgs.has_gpu /\ SmoothingOn /\ DownscaleNeeded
  /\ Len(callResult.video_filters) = 3
  /\ \E i \in 1..Len(callResult.cmd) : callResult.cmd[i] = "-vf"

FileSizes == { 0, 1, 4, 5, 9, 10, 11, 1000, 500000, 100000000 }
PlanDurations == { 0, 1, 60, 792, 793, 1800, 3600 }
\* the first video stream of the probe
Streams == { [width |-> 1920, height |-> 1080], [width |-> 3840, height |-> 2160],
             [width |-> 0, height |-> 0] }

\* (name, output_size_factor); the factors 0.40, 0.50, 0.60 as fractions
percentages ==
  << << "60% Reduction", << 2, 5 >> >>,
     << "50% Reduction", << 1, 2 >> >>,
     << "40% Reduction", << 3, 5 >> >> >>

\* int(file_size * size_factor): the product of a size below 2^53 with the
\* double nearest to the factor truncates to the floor of the exact product
target_size(file_size, size_factor) ==
  (file_size * size_factor[1]) \div size_factor[2]

\* target_bitrate, were the size not converted to bits
target_bitrate_in_bytes(size, dur) == size \div dur

\* int((target_size * 8) / duration)
target_bitrate(size, dur) == (size * 8) \div dur

\* calculate_quality_options: "if duration == 0: duration = 1", is_4k, one
\* option per percentage
calculate_quality_options(file_size, dur, video_info) ==
  LET d == IF dur = 0 THEN 1 ELSE dur
      is_4k == video_info.width >= 3840 \/ video_info.height >= 2160
  IN [ i \in 1..Len(percentages) |->
         LET size == target_size(file_size, percentages[i][2])
         IN [ name |-> percentages[i][1],
              bitrate |-> target_bitrate(size, d),
              estimated_size |-> size,
              is_4k |-> is_4k ] ]

\* one call of calculate_quality_options
plan_options ==
  /\ callPc = "called"
  /\ callArgs.fn = "calculate_quality_options"
  /\ callResult' = calculate_quality_options(callArgs.file_size, callArgs.duration,
                                             callArgs.video_info)
  /\ callPc' = "returned"
  /\ UNCHANGED << callArgs, existing, engineStateVars, cacheVars >>

PlannerInit ==
  /\ CallStart
  /\ callArgs \in [ fn : {"calculate_quality_options"}, file_size : FileSizes,
                     duration : PlanDurations, video_info : Streams ]
  /\ existing = {}

PlannerNext == plan_options

PlannerSpec == PlannerInit /\ [][PlannerNext]_vars

\* calculate_quality_options has returned
Planned == callPc = "returned" /\ callArgs.fn = "calculate_quality_options"

\* the duration the planner divides by
PlanSeconds == IF callArgs.duration = 0 THEN 1 ELSE callArgs.duration

ThreeReductions ==
  /\ Len(callResult) = 3
  /\ callResult[1].name = "60% Reduction"
  /\ callResult[2].name = "50% Reduction"
  /\ callResult[3].name = "40% Reduction"

\* C25 as stated: three options (60%, 50%, 40% reduction); a larger reduction
\* has a strictly smaller estimated size and a strictly smaller bitrate
C25_StrictlySmaller ==
  Planned =>
    /\ ThreeReductions
    /\ \A i \in 1..2 :
         /\ callResult[i].estimated_size < callResult[i + 1].estimated_size
         /\ callResult[i].bitrate < callResult[i + 1].bitrate

\* C25 amended: three options (60%, 50%, 40% reduction) with estimated size
\* floor(fileSize x (1 - reduction)) and bitrate floor(size x 8 / duration),
\* a zero duration counting as 1 second; a larger reduction has a size and a
\* bitrate that are not larger, strictly smaller sizes from 10 bytes on, and
\* strictly smaller bitrates when also 0.8 x fileSize - 8 >= duration
C25_SmallerUpToTruncation ==
  Planned =>
    /\ ThreeReductions
    /\ \A i \in 1..3 :
         LET keep == << 4, 5, 6 >>[i]
         IN /\ callResult[i].estimated_size * 10 <= callArgs.file_size * keep
            /\ (callResult[i].estimated_size + 1) * 10 > callArgs.file_size * keep
            /\ callResult[i].bitrate * PlanSeconds <= callResult[i].estimated_size * 8
            /\ (callResult[i].bitrate + 1) * PlanSeconds > callResult[i].estimated_size * 8
    /\ \A i \in 1..2 :
         /\ callResult[i].estimated_size <= callResult[i + 1].estimated_size
         /\ callResult[i].bitrate <= callResult[i + 1].bitrate
         /\ callArgs.file_size >= 10 =>
              callResult[i].estimated_size < callResult[i + 1].estimated_size
         /\ (callArgs.file_size >= 10
             /\ 8 * callArgs.file_size - 80 >= 10 * PlanSeconds) =>
              callResult[i].bitrate < callResult[i + 1].bitrate

\* a small file is planned: the sizes of two options coincide
C25_Witness ==
  /\ Planned
  /\ callArgs.file_size = 5
  /\ callResult[1].estimated_size = callResult[2].estimated_size

\* a long file of 1000 bytes: strict for 792 seconds, not for 1800
C25_WitnessStrict ==
  /\ Planned
  /\ callArgs.file_size = 1000 /\ callArgs.duration = 792
  /\ callResult[1].bitrate < callResult[2].bitrate

\* ------------------------------------------------- output name collisions
\* a path is <<base, ext>>, what os.path.splitext makes of it
OutputNames ==
  { << "a_hevc", ".mp4" >>, << "a_hevc_1", ".mp4" >>, << "a_hevc_2", ".mp4" >>,
    << "a_hevc_3", ".mp4" >>, << "a_hevc_1_1", ".mp4" >>, << "b_hevc", ".mp4" >> }

\* f"{base}_{counter}{ext}"
Numbered(path, counter) == << path[1] \o "_" \o ToString(counter), path[2] >>

\* handle_existing_file_auto without the while loop
handle_existing_file_first_suffix(path, disk) ==
  IF path \notin disk THEN path ELSE Numbered(path, 1)

\* the while loop: the first counter whose name does not exist
RECURSIVE FirstFree(_, _, _)
FirstFree(path, counter, disk) ==
  IF Numbered(path, counter) \in disk
  THEN FirstFree(path, counter + 1, disk)
  ELSE Numbered(path, counter)

\* handle_existing_file_auto(file_path), with the paths on disk
handle_existing_file_auto(path, disk) ==
  IF path \notin disk THEN path ELSE FirstFree(path, 1, disk)

\* a call of handle_existing_file_auto, the first or a repeated one; the
\* function creates no file
resolve_collision ==
  /\ callPc \in {"called", "returned"}
  /\ callArgs.fn = "handle_existing_file_auto"
  /\ Len(callResult) < 2
  /\ callResult' = Append(callResult,
                          [ path |-> handle_existing_file_auto(callArgs.path, existing),
                            disk |-> existing ])
  /\ callPc' = "returned"
  /\ UNCHANGED << callArgs, existing, engineStateVars, cacheVars >>

\* between two calls an encoder or another program creates a file
file_created(p) ==
  /\ callPc = "returned"
  /\ callArgs.fn = "handle_existing_file_auto"
  /\ Len(callResult) = 1 /\ callResult[1].disk = existing
  /\ p \notin existing
  /\ existing' = existing \cup {p}
  /\ UNCHANGED << callArgs, callPc, callResult, engineStateVars, cacheVars >>

CollisionInit ==
  /\ CallStart
  /\ callArgs \in [ fn : {"handle_existing_file_auto"},
                     path : { << "a_hevc", ".mp4" >>, << "a_hevc_1", ".mp4" >> } ]
  /\ existing \in SUBSET OutputNames

CollisionNext == resolve_collision \/ \E p \in OutputNames : file_created(p)

CollisionSpec == CollisionInit /\ [][CollisionNext]_vars

\* the name path_n of the claim
Suffixed(path, n) == << path[1] \o "_" \o ToString(n), path[2] >>

\* C26: the result does not exist at the time of the call; it is the input
\* when that is free, else the first free name among path_1, path_2, ...;
\* a second call with the same files on disk returns the same result
C26_FirstFreeName ==
  callArgs.fn = "handle_existing_file_auto" =>
    /\ \A i \in 1..Len(callResult) :
         LET r == callResult[i]
         IN /\ r.path \notin r.disk
            /\ callArgs.path \notin r.disk => r.path = callArgs.path
            /\ callArgs.path \in r.disk =>
                 \E n \in 1..(Cardinality(r.disk) + 1) :
                    /\ r.path = Suffixed(callArgs.path, n)
                    /\ \A m \in 1..(n - 1) : Suffixed(callArgs.path, m) \in r.disk
    /\ (Len(callResult) = 2 /\ callResult[1].disk = callResult[2].disk) =>
         callResult[1].path = callResult[2].path

\* the name and its first two numbered names are taken; two calls gave _3
C26_Witness ==
  /\ callArgs.fn = "handle_existing_file_auto"
  /\ Len(callResult) = 2
  /\ callResult[1].disk = callResult[2].disk
  /\ callArgs.path = << "a_hevc", ".mp4" >>
  /\ callResult[2].path = << "a_hevc_3", ".mp4" >>

\* C29: once stop() has been called on the scheduler, no source file of any
\* job of the batch is moved to trash
C29_NoTrashAfterStop ==
  [][ is_stopped => \A j \in Jobs : trashCalls'[j] = trashCalls[j] ]_vars

\* C28: after cancellation is requested for a running job its encoder is
\* eventually sent terminate (or has exited), also when it prints no further
\* line and does not exit on its own, and stop() eventually returns
C28_TerminateReachesEncoder ==
  /\ \A j \in Jobs :
       (stop_event[j] /\ pc[j] \in {"loop", "read"} /\ proc[j] = "running")
         ~> (proc[j] # "running")
  /\ (mainPc # "idle") ~> (mainPc = "idle")

\* ------------------------------------------------- supervisors and files
\* two supervisors of one batch, each in its pool thread with its own
\* Converter (max_concurrency >= 2)
Supervisors == { 1, 2 }

\* source files of one folder: the name in pieces, and the extension
SourceFiles ==
  { [name |-> << "a" >>, ext |-> ".mkv"], [name |-> << "a" >>, ext |-> ".avi"],
    [name |-> << "a", "2160p" >>, ext |-> ".mkv"],
    [name |-> << "b" >>, ext |-> ".mkv"] }

\* name.replace(piece, "")
Replace(name, piece) == SelectSeq(name, LAMBDA x : x # piece)

RECURSIVE Concat(_)
Concat(pieces) ==
  IF pieces = << >> THEN "" ELSE pieces[1] \o Concat(Tail(pieces))

\* get_output_path: drop the extension, remove "2160p" and then "2160",
\* append "_hevc.mp4"; the folder is that of the source (or the custom
\* folder) and is the same for all
get_output_path(input) ==
  << Concat(Replace(Replace(input.name, "2160p"), "2160")) \o "_hevc", ".mp4" >>

Locals(j) == callResult[j]
SetLocals(j, new) == callResult' = [callResult EXCEPT ![j] = new]
AtPc(j, where) == callArgs.fn = "batch" /\ callPc[j] = where
GoTo(j, where) == callPc' = [callPc EXCEPT ![j] = where]

\* the encoder process of j has not exited
EncoderAlive(j) == Locals(j).proc \in {"running", "terminated"}

\* convert_single_file, entry: stop_event = False, output_path,
\* final_output_path
resolve_output(j) ==
  /\ AtPc(j, "start")
  /\ SetLocals(j, [Locals(j) EXCEPT
        !.stop_event = FALSE,
        !.final_output_path =
           handle_existing_file_auto(get_output_path(callArgs.source[j]), existing)])
  /\ GoTo(j, "resolved")
  /\ UNCHANGED << callArgs, existing, engineStateVars, cacheVars >>

\* subprocess.Popen(cmd): the encoder runs
popen(j) ==
  /\ AtPc(j, "resolved")
  /\ SetLocals(j, [Locals(j) EXCEPT !.proc = "running"])
  /\ GoTo(j, "loop")
  /\ UNCHANGED << callArgs, existing, engineStateVars, cacheVars >>

\* the encoder (started with '-y') opens its output file: it creates the
\* file, or truncates the one that is there
encoder_opens_output(j) ==
  /\ callArgs.fn = "batch"
  /\ EncoderAlive(j)
  /\ ~Locals(j).opened
  /\ SetLocals(j, [Locals(j) EXCEPT
        !.opened = TRUE,
        !.overwrote = Locals(j).final_output_path \in existing])
  /\ existing' = existing \cup { Locals(j).final_output_path }
  /\ UNCHANGED << callArgs, callPc, engineStateVars, cacheVars >>

\* the encoder exits: on its own with status rc, or because it was
\* terminated
encoder_ends(j, rc) ==
  /\ callArgs.fn = "batch"
  /\ EncoderAlive(j)
  /\ SetLocals(j, [Locals(j) EXCEPT
        !.proc = IF @ = "terminated" THEN "dead"
                 ELSE IF rc = 0 THEN "exited_0" ELSE "exited_1"])
  /\ UNCHANGED << callArgs, callPc, existing, engineStateVars, cacheVars >>

\* Converter.stop(), called once by the stop() of the runnable
converter_stop(j) ==
  /\ callArgs.fn = "batch"
  /\ callPc[j] # "returned"
  /\ ~Locals(j).stop_called
  /\ SetLocals(j, [Locals(j) EXCEPT !.stop_event = TRUE, !.stop_called = TRUE])
  /\ UNCHANGED << callArgs, callPc, existing, engineStateVars, cacheVars >>

\* top of the read loop: on stop_event process.terminate(), which does not
\* wait for the process; else readline()
loop_top(j) ==
  /\ AtPc(j, "loop")
  /\ IF Locals(j).stop_event
     THEN /\ SetLocals(j, [Locals(j) EXCEPT
                !.proc = IF @ = "running" THEN "terminated" ELSE @])
          /\ GoTo(j, "cancel_exists")
     ELSE /\ GoTo(j, "read")
          /\ UNCHANGED callResult
  /\ UNCHANGED << callArgs, existing, engineStateVars, cacheVars >>

\* "if final_output_path and os.path.exists(final_output_path)"; without the
\* file: return (False, None, None)
cancel_exists(j) ==
  /\ AtPc(j, "cancel_exists")
  /\ IF Locals(j).final_output_path \in existing
     THEN /\ GoTo(j, "cancel_remove")
          /\ UNCHANGED callResult
     ELSE /\ SetLocals(j, [Locals(j) EXCEPT !.ret = "cancelled", !.outSeen = "missing"])
          /\ GoTo(j, "returned")
  /\ UNCHANGED << callArgs, existing, engineStateVars, cacheVars >>

\* time.sleep(0.5); os.remove(final_output_path): it removes the file, or
\* raises (the file is open elsewhere, or is gone) and the error is logged;
\* return (False, None, None)
cancel_remove(j, raises) ==
  /\ AtPc(j, "cancel_remove")
  /\ Locals(j).final_output_path \notin existing => raises
  /\ IF raises
     THEN /\ SetLocals(j, [Locals(j) EXCEPT !.ret = "cancelled",
                                            !.outSeen = "remove_failed"])
          /\ UNCHANGED existing
     ELSE /\ SetLocals(j, [Locals(j) EXCEPT !.ret = "cancelled",
                                            !.outSeen = "removed",
                                            !.removed_path = Locals(j).final_output_path])
          /\ existing' = existing \ { Locals(j).final_output_path }
  /\ GoTo(j, "returned")
  /\ UNCHANGED << callArgs, engineStateVars, cacheVars >>

\* readline() returns a line of the running encoder
read_line(j) ==
  /\ AtPc(j, "read")
  /\ EncoderAlive(j)
  /\ GoTo(j, "loop")
  /\ UNCHANGED << callArgs, callResult, existing, engineStateVars, cacheVars >>

\* readline() returns '' and poll() is not None: the result by returncode
read_eof(j) ==
  /\ AtPc(j, "read")
  /\ Locals(j).proc \in {"exited_0", "exited_1"}
  /\ SetLocals(j, [Locals(j) EXCEPT
        !.ret = IF Locals(j).proc = "exited_0" THEN "success" ELSE "error"])
  /\ GoTo(j, "returned")
  /\ UNCHANGED << callArgs, existing, engineStateVars, cacheVars >>

NoPath == << "", "" >>

\* two runnables of a batch with distinct sources have been started; an
\* output of an earlier run may be on disk
SupervisorInit ==
  /\ max_concurrency = 1
  /\ total_count = 0
  /\ delete_flag = FALSE
  /\ lineBudget = 0
  /\ timeMarks = {}
  /\ probeDurations = {}
  /\ EngineRest
  /\ CacheAtRest
  /\ callArgs \in { a \in [ fn : {"batch"}, source : [Supervisors -> SourceFiles] ] :
                       a.source[1] # a.source[2] }
  /\ callPc = [j \in Supervisors |-> "start"]
  /\ callResult = [j \in Supervisors |->
                     [ stop_event |-> FALSE, stop_called |-> FALSE,
                       final_output_path |-> NoPath, proc |-> "none",
                       opened |-> FALSE, overwrote |-> FALSE, ret |-> "none",
                       outSeen |-> "unchecked", removed_path |-> NoPath ]]
  /\ existing \in { {}, { << "a_hevc", ".mp4" >> } }

SupervisorNext ==
  \E j \in Supervisors :
    \/ resolve_output(j)
    \/ popen(j)
    \/ encoder_opens_output(j)
    \/ \E rc \in {0, 1} : encoder_ends(j, rc)
    \/ converter_stop(j)
    \/ loop_top(j)
    \/ cancel_exists(j)
    \/ \E raises \in BOOLEAN : cancel_remove(j, raises)
    \/ read_line(j)
    \/ read_eof(j)

SupervisorSpec == SupervisorInit /\ [][SupervisorNext]_vars

\* the supervisor of j is between the resolution of its path and its return
SupervisorActive(j) ==
  callPc[j] \in {"resolved", "loop", "read", "cancel_exists", "cancel_remove"}

\* C27: after a cancelled job whose deletion did not fail, no output file
\* of that job remains on disk (here: its encoder has exited, and no other
\* supervisor has even started)
C27_NoOutputLeftAfterCancel ==
  callArgs.fn = "batch" =>
    \A j \in Supervisors :
      ( /\ callPc[j] = "returned"
        /\ Locals(j).ret = "cancelled"
        /\ Locals(j).outSeen # "remove_failed"
        /\ ~EncoderAlive(j)
        /\ \A i \in Supervisors \ {j} : callPc[i] = "start" )
      => Locals(j).final_output_path \notin existing

\* C30: whenever two supervisors are active at the same time their final
\* output paths differ; no encoder overwrites a file, and no cancelled job
\* deletes the output file of another job
C30_DistinctOutputPaths ==
  callArgs.fn = "batch" =>
    \A i, j \in Supervisors :
      i # j =>
        /\ (SupervisorActive(i) /\ SupervisorActive(j)) =>
             Locals(i).final_output_path # Locals(j).final_output_path
        /\ ~Locals(i).overwrote
        /\ (Locals(i).removed_path # NoPath /\ Locals(j).opened) =>
             Locals(i).removed_path # Locals(j).final_output_path
====
